---------------------------- MODULE Spec2Model ----------------------------
(***************************************************************************)
(* A model of the cj-store economy engine: the Store actor (src/store.rs), *)
(* its persistence layer (types/user.rs, types/pair.rs, order.rs,          *)
(* trade.rs, storage.rs, types/node.rs, chest.rs), the message protocol    *)
(* (messages.rs) and the two peers that feed the Store (bot.rs, cli.rs).   *)
(***************************************************************************)
EXTENDS Integers, Sequences, FiniteSets, TLC

(***************************************************************************)
(* Bounds of the model.                                                    *)
(***************************************************************************)
\* Largest finite amount / initial balance drawn for a direct pay call.
MaxAmount == 2
\* Direct pay calls made on one Store (a NaN balance lets pay mint money
\* without end, so the calls are counted).
MaxPayCalls == 3
\* Messages the bot and the console put on the Store's inbox in one run.
MaxMsgs == 3
\* Capacity of the Store's inbox in the model (mpsc::channel(128) in main).
InboxCap == 2
\* Capacity of the Store -> bot instruction channel in the model (128).
OutboxCap == 1
\* io errors that strike the saves of one run.
MaxIoFaults == 1
\* The balance alice holds on disk when the Store starts.
MaxBalance == 1
MaxCalls == 2
MaxRepoCalls == 2

(***************************************************************************)
(* f64.  A balance or an amount is an IEEE-754 double.  The finite values  *)
(* the model draws are small integers, on which f64 arithmetic is exact;   *)
(* NaN and the two infinities are kept because str::parse::<f64> produces  *)
(* them ("NaN", "inf", "-inf") and the comparisons of pay treat them       *)
(* specially.                                                              *)
(***************************************************************************)
Fin(n) == [k |-> "fin", v |-> n]
NaN    == [k |-> "nan", v |-> 0]
PInf   == [k |-> "inf", v |-> 1]
NInf   == [k |-> "inf", v |-> -1]

\* a < b on f64 (false as soon as one side is NaN)
FLt(a, b) ==
    IF a.k = "nan" \/ b.k = "nan" THEN FALSE
    ELSE IF a.k = "fin" /\ b.k = "fin" THEN a.v < b.v
    ELSE IF a.k = "inf" /\ b.k = "inf" THEN a.v < b.v
    ELSE IF a.k = "inf" THEN a.v < 0
    ELSE b.v > 0

\* a <= b on f64 (false as soon as one side is NaN)
FLe(a, b) ==
    IF a.k = "nan" \/ b.k = "nan" THEN FALSE
    ELSE a = b \/ FLt(a, b)

\* a + b on f64
FAdd(a, b) ==
    IF a.k = "nan" \/ b.k = "nan" THEN NaN
    ELSE IF a.k = "fin" /\ b.k = "fin" THEN Fin(a.v + b.v)
    ELSE IF a.k = "inf" /\ b.k = "inf" THEN (IF a.v = b.v THEN a ELSE NaN)
    ELSE IF a.k = "inf" THEN a
    ELSE b

FNeg(a) == IF a.k = "nan" THEN NaN ELSE [k |-> a.k, v |-> 0 - a.v]

\* a - b on f64
FSub(a, b) == FAdd(a, FNeg(b))

(***************************************************************************)
(* The Directory (User::get_uuid): the Mojang profile lookup.  A username  *)
(* resolves to the stable id of its account or the lookup fails.  "al" is  *)
(* a later name of alice's account (names change, ids do not).  A stable   *)
(* id is a 36-character hyphenated string and is never itself a username,  *)
(* so looking an id up as a name fails.                                    *)
(***************************************************************************)
Directory == [alice |-> "uuid-a", al |-> "uuid-a", bob |-> "uuid-b"]

Usernames == {"alice", "al", "bob", "ghost"}
Uuids == {"uuid-a", "uuid-b"}

Ok(v)  == [ok |-> TRUE,  v |-> v]
Err(e) == [ok |-> FALSE, v |-> e]

get_uuid(username) ==
    IF username \in DOMAIN Directory
    THEN Ok(Directory[username])
    ELSE Err("Player not found")

(***************************************************************************)
(* User::new(username): uuid: Self::get_uuid(&username).unwrap().          *)
(* User_new_panics is the unwrap on a failed lookup.                       *)
(***************************************************************************)
User_new_panics(username) == ~get_uuid(username).ok

\* A User::new that takes the name for the id.
User_new_named(username) ==
    [uuid |-> username, username |-> username, balance |-> Fin(0)]

User_new(username) ==
    [uuid |-> get_uuid(username).v, username |-> username, balance |-> Fin(0)]

\* HashMap::new()
EmptyMap == [x \in {} |-> 0]

\* HashMap::values().cloned().collect(): the records of the map, in no
\* particular order.
Values(m) == {m[k] : k \in DOMAIN m}

\* HashMap::insert
Insert(m, key, val) ==
    [x \in (DOMAIN m) \cup {key} |-> IF x = key THEN val ELSE m[x]]

(***************************************************************************)
(* Store::pay, statement by statement.  The result is what the caller      *)
(* sees (Ok, an Err with its message, or a panic that unwinds the Store    *)
(* task) and the users map as the call leaves it.                          *)
(***************************************************************************)
PayRet(res, why, u) == [res |-> res, why |-> why, users |-> u]

\* lines 424-436: the transfer and the refresh of both display names
pay_transfer(u, payer_uuid, payee_uuid, payer_username, payee_username, amount) ==
    LET u1 == [u  EXCEPT ![payer_uuid].balance = FSub(@, amount)]
        u2 == [u1 EXCEPT ![payee_uuid].balance = FAdd(@, amount)]
        u3 == [u2 EXCEPT ![payer_uuid].username = payer_username]
        u4 == [u3 EXCEPT ![payee_uuid].username = payee_username]
    IN  u4

\* lines 405-436: the balance check, the amount check, the transfer
pay_checked(u, payer_uuid, payee_uuid, payer_username, payee_username, amount) ==
    IF FLt(u[payer_uuid].balance, amount)
    THEN PayRet("Err", "Insufficient balance", u)
    ELSE IF FLe(amount, Fin(0))
    THEN PayRet("Err", "Amount must be positive", u)
    ELSE PayRet("Ok", "",
                pay_transfer(u, payer_uuid, payee_uuid,
                             payer_username, payee_username, amount))

\* A slip that moves the money before the two checks are made.
pay_transfer_first(users0, payer_username, payee_username, amount) ==
    LET r1 == get_uuid(payer_username)
        r2 == get_uuid(payee_username)
    IN  IF ~r1.ok THEN PayRet("Err", r1.v, users0)
        ELSE IF ~r2.ok THEN PayRet("Err", r2.v, users0)
        ELSE IF r1.v \notin DOMAIN users0
        THEN PayRet("Err", "Payer not found", users0)
        ELSE IF r2.v \notin DOMAIN users0
        THEN PayRet("Panic", "User::new", users0)
        ELSE LET moved == pay_transfer(users0, r1.v, r2.v,
                                       payer_username, payee_username, amount)
             IN  IF FLt(users0[r1.v].balance, amount)
                 THEN PayRet("Err", "Insufficient balance", moved)
                 ELSE IF FLe(amount, Fin(0))
                 THEN PayRet("Err", "Amount must be positive", moved)
                 ELSE PayRet("Ok", "", moved)

pay(users0, payer_username, payee_username, amount) ==
    LET r1 == get_uuid(payer_username)
        r2 == get_uuid(payee_username)
    IN  IF ~r1.ok THEN PayRet("Err", r1.v, users0)
        ELSE IF ~r2.ok THEN PayRet("Err", r2.v, users0)
        ELSE IF r1.v \notin DOMAIN users0
        THEN PayRet("Err", "Payer not found", users0)
        ELSE IF r2.v \notin DOMAIN users0
        THEN \* users.insert(payee_uuid, User::new(payee_uuid)): the id is
             \* handed to User::new as the username
             IF User_new_panics(r2.v)
             THEN PayRet("Panic", "User::new", users0)
             ELSE pay_checked(Insert(users0, r2.v, User_new(r2.v)),
                              r1.v, r2.v, payer_username, payee_username, amount)
        ELSE pay_checked(users0, r1.v, r2.v,
                         payer_username, payee_username, amount)

(***************************************************************************)
(* Chat commands.  A command is the text split on whitespace               *)
(* (split_whitespace); its numeric tokens are parsed by str::parse.        *)
(***************************************************************************)
\* parts[2].parse::<u32>(): decimal digits only
\* A parse that reads a token it cannot parse as 0 instead of failing.
ParseU32Lenient(tok) ==
    IF tok = "1" THEN Ok(1)
    ELSE IF tok = "2" THEN Ok(2)
    ELSE Ok(0)

ParseU32(tok) ==
    IF tok = "0" THEN Ok(0)
    ELSE IF tok = "1" THEN Ok(1)
    ELSE IF tok = "2" THEN Ok(2)
    ELSE Err("Invalid quantity")

\* parts[2].parse::<f64>(): decimal numbers, and "NaN", "inf", "-inf"
ParseF64(tok) ==
    IF tok = "0" THEN Ok(Fin(0))
    ELSE IF tok = "1" THEN Ok(Fin(1))
    ELSE IF tok = "2" THEN Ok(Fin(2))
    ELSE IF tok = "-1" THEN Ok(Fin(-1))
    ELSE IF tok = "NaN" THEN Ok(NaN)
    ELSE IF tok = "inf" THEN Ok(PInf)
    ELSE IF tok = "-inf" THEN Ok(NInf)
    ELSE Err("Invalid amount")

\* What a handler leaves: Ok(()), an Err(String) that run logs, or a panic
\* that unwinds the Store task; the users map; the notice for the player.
\* format!("{}", x) of an f64: an integral value prints without a fraction
Display_f64(x) ==
    IF x.k = "nan" THEN "NaN"
    ELSE IF x.k = "inf" THEN (IF x.v > 0 THEN "inf" ELSE "-inf")
    ELSE ToString(x.v)

\* The notice a handler makes for the player: which one, and for the
\* balance notice the message as formatted.
Notice(text) == [text |-> text, message |-> ""]

HandlerRet(res, why, u, notice) ==
    [res |-> res, why |-> why, users |-> u, notice |-> Notice(notice)]

\* Store::add_user: the users map after the call (the unwrap of a failed
\* lookup is add_user_panics).
add_user_panics(username) == ~get_uuid(username).ok

\* An add_user that writes a fresh account whether or not the id has one.
add_user_overwriting(users0, username) ==
    Insert(users0, get_uuid(username).v, User_new(username))

add_user(users0, username) ==
    LET uuid == get_uuid(username).v
    IN  IF uuid \notin DOMAIN users0
        THEN Insert(users0, uuid, User_new(username))
        ELSE users0

\* Store::add_pair: insert when the key is absent; the pair on record is
\* what the caller gets back.
add_pair(pairs0, item, item_stock, currency_stock) ==
    IF item \notin DOMAIN pairs0
    THEN Insert(pairs0, item,
                [item |-> item, item_stock |-> item_stock,
                 currency_stock |-> currency_stock])
    ELSE pairs0

\* A balance lookup by display name instead of by id.
get_user_balance_by_name(users0, username) ==
    IF \E id \in DOMAIN users0 : users0[id].username = username
    THEN users0[CHOOSE id \in DOMAIN users0 :
                    users0[id].username = username].balance
    ELSE Fin(0)

\* Store::get_user_balance
get_user_balance(users0, username) ==
    LET r == get_uuid(username)
    IN  IF r.ok
        THEN (IF r.v \in DOMAIN users0 THEN users0[r.v].balance ELSE Fin(0))
        ELSE Fin(0)

\* Store::handle_buy_order and Store::handle_sell_order (the same body)
handle_buy_order(users0, pairs0, player_name, item, quantity) ==
    IF add_user_panics(player_name)
    THEN HandlerRet("Panic", "add_user", users0, "")
    ELSE IF item \notin DOMAIN pairs0
    THEN HandlerRet("Ok", "", add_user(users0, player_name), "not available")
    ELSE HandlerRet("Ok", "", add_user(users0, player_name), "created order")

handle_sell_order(users0, pairs0, player_name, item, quantity) ==
    handle_buy_order(users0, pairs0, player_name, item, quantity)

\* Store::handle_player_command
handle_player_command(users0, pairs0, player_name, parts) ==
    IF Len(parts) = 0
    THEN HandlerRet("Ok", "", users0, "usage")
    ELSE IF parts[1] \in {"buy", "sell"}
    THEN IF Len(parts) >= 3
         THEN LET q == ParseU32(parts[3])
              IN  IF ~q.ok
                  THEN HandlerRet("Err", q.v, users0, "")
                  ELSE IF parts[1] = "buy"
                  THEN handle_buy_order(users0, pairs0, player_name, parts[2], q.v)
                  ELSE handle_sell_order(users0, pairs0, player_name, parts[2], q.v)
         ELSE HandlerRet("Ok", "", users0, "usage")
    ELSE IF parts[1] \in {"bal", "balance"}
    THEN [HandlerRet("Ok", "", users0, "balance") EXCEPT
             !.notice.message =
                 player_name \o "'s balance: "
                 \o Display_f64(get_user_balance(users0, player_name))
                 \o " diamonds"]
    ELSE IF parts[1] = "pay"
    THEN IF Len(parts) >= 3
         THEN LET a == ParseF64(parts[3])
              IN  IF ~a.ok
                  THEN HandlerRet("Err", a.v, users0, "")
                  ELSE LET r == pay(users0, player_name, parts[2], a.v)
                       IN  IF r.res = "Panic"
                           THEN HandlerRet("Panic", r.why, r.users, "")
                           ELSE IF r.res = "Ok"
                           THEN HandlerRet("Ok", "", r.users, "paid")
                           ELSE HandlerRet("Ok", "", r.users, r.why)
         ELSE HandlerRet("Ok", "", users0, "usage")
    ELSE HandlerRet("Ok", "", users0, "usage")

\* An update_item_price that reports success whether or not the pair exists.
update_item_price_always_ok(pairs0, item_name) == Ok("")

\* Store::update_item_price
update_item_price(pairs0, item_name) ==
    IF item_name \in DOMAIN pairs0
    THEN Ok("")
    ELSE Err("Item not found")

(***************************************************************************)
(* Persistence.  A directory of .json files is whether it exists and, per  *)
(* file name, what serde_json::from_str makes of the file: Ok(entity), or  *)
(* an Err for a file that does not deserialize (Junk).  serde_json writes  *)
(* a NaN or infinite f64 as null, which does not read back as an f64.      *)
(* files holds the regular files named *.json, by the name before ".json"; *)
(* others holds the names of the other entries of the directory (files     *)
(* with another extension, subdirectories), which load_all and the orphan  *)
(* removal of save_all pass over.                                          *)
(***************************************************************************)
NoDir == [exists |-> FALSE, files |-> EmptyMap, others |-> {}]
Dir(files) == [exists |-> TRUE, files |-> files, others |-> {}]
Junk == Err("junk")

\* serde_json::to_string_pretty(user) as from_str reads it back
UserJson(u) == IF u.balance.k = "fin" THEN Ok(u) ELSE Err("null")
PairJson(p) == IF p.currency_stock.k = "fin" THEN Ok(p) ELSE Err("null")
TradeJson(t) == IF t.amount_currency.k = "fin" THEN Ok(t) ELSE Err("null")

\* A load_all that gives up, with nothing loaded, when a file of the
\* directory does not deserialize.
ParsedOfStrict(dir) ==
    IF \E m \in DOMAIN dir.files : ~dir.files[m].ok
    THEN {}
    ELSE {dir.files[n].v : n \in DOMAIN dir.files}

\* The entities of the files of dir that deserialize.
ParsedOf(dir) ==
    {dir.files[n].v : n \in {m \in DOMAIN dir.files : dir.files[m].ok}}

\* Pair::load_all
Pair_load_all(dir) ==
    IF ~dir.exists THEN EmptyMap
    ELSE LET ps == ParsedOf(dir)
         IN  [i \in {q.item : q \in ps} |-> CHOOSE q \in ps : q.item = i]

\* User::load_all
User_load_all(dir) ==
    IF ~dir.exists THEN EmptyMap
    ELSE LET us == ParsedOf(dir)
         IN  [i \in {u.uuid : u \in us} |-> CHOOSE u \in us : u.uuid = i]

\* Trade::load_all: the trades that deserialize, oldest first; a Vec<Trade>
\* is kept as the set of its trades (their timestamps order them).
Trade_load_all(dir) == IF ~dir.exists THEN {} ELSE ParsedOf(dir)

\* Order::load_all: one file for the whole queue
NoFile == [exists |-> FALSE, parse |-> Junk]
Order_load_all(file) ==
    IF ~file.exists THEN <<>>
    ELSE IF file.parse.ok THEN file.parse.v
    ELSE <<>>

\* Order::save_all
Order_save_all(orders0) == [exists |-> TRUE, parse |-> Ok(orders0)]

\* The files save_all writes: one per entity, named by the entity's key
\* field ({item}.json, {uuid}.json, {timestamp}.json).
PairFiles(pairs0) ==
    [n \in {pairs0[k].item : k \in DOMAIN pairs0} |->
        PairJson(pairs0[CHOOSE k \in DOMAIN pairs0 : pairs0[k].item = n])]

UserFiles(users0) ==
    [n \in {users0[k].uuid : k \in DOMAIN users0} |->
        UserJson(users0[CHOOSE k \in DOMAIN users0 : users0[k].uuid = n])]

TradeFileName(t) == "t" \o ToString(t.timestamp)

TradeFiles(trades0) ==
    [n \in {TradeFileName(t) : t \in trades0} |->
        TradeJson(CHOOSE t \in trades0 : TradeFileName(t) = n)]

\* A save_all that writes its files and removes nothing.
SaveAllKeeping(dir, files) ==
    [Dir([n \in (DOMAIN dir.files) \cup (DOMAIN files) |->
             IF n \in DOMAIN files THEN files[n] ELSE dir.files[n]])
        EXCEPT !.others = dir.others]

\* A save_all whose removal loop has its test turned around: it removes
\* the files it has just written and keeps the others.
SaveAllInverted(dir, files) ==
    [Dir([n \in (DOMAIN dir.files) \ (DOMAIN files) |-> dir.files[n]])
        EXCEPT !.others = dir.others]

\* save_all that ran to its end: every file written, every other .json
\* file of the directory removed.
SaveAll(dir, files) == [Dir(files) EXCEPT !.others = dir.others]

\* save_all that returned an io error on the way: the files of `written`
\* were written, the orphans of `removed` removed.
SaveAllFailed(dir, files, written, removed) ==
    [Dir([n \in ((DOMAIN dir.files) \ removed) \cup written |->
            IF n \in written THEN files[n] ELSE dir.files[n]])
        EXCEPT !.others = dir.others]

Pair_save_all(dir, pairs0) == SaveAll(dir, PairFiles(pairs0))
User_save_all(dir, users0) == SaveAll(dir, UserFiles(users0))
Trade_save_all(dir, trades0) == SaveAll(dir, TradeFiles(trades0))

(***************************************************************************)
(* Storage.  data/storage/{node_id}/{index}.json holds one chest.          *)
(***************************************************************************)
NewChest(node_id, index) ==
    [id |-> node_id * 4 + index, node_id |-> node_id, index |-> index,
     item |-> ""]

ChestsOf(storage0) ==
    UNION { {storage0.nodes[n].chests[c] : c \in DOMAIN storage0.nodes[n].chests}
            : n \in DOMAIN storage0.nodes }

\* Chest::save of every chest of cs
WriteChests(sdir, cs) ==
    LET old(n) == IF n \in DOMAIN sdir.nodes THEN sdir.nodes[n] ELSE EmptyMap
        nids == (DOMAIN sdir.nodes) \cup {c.node_id : c \in cs}
    IN  [exists |-> TRUE,
         nodes |->
            [n \in nids |->
                [i \in (DOMAIN old(n)) \cup
                       {c.index : c \in {x \in cs : x.node_id = n}} |->
                    IF \E c \in cs : c.node_id = n /\ c.index = i
                    THEN Ok(CHOOSE c \in cs : c.node_id = n /\ c.index = i)
                    ELSE old(n)[i]]]]

\* Storage::save: Node::save of every node
Storage_save(sdir, storage0) == WriteChests(sdir, ChestsOf(storage0))

RECURSIVE SortedSeq(_)
\* The elements of a set of integers, ascending.
SortedSeq(S) ==
    IF S = {} THEN <<>>
    ELSE LET m == CHOOSE x \in S : \A y \in S : x <= y
         IN  <<m>> \o SortedSeq(S \ {m})

\* Node::load: the chest files that deserialize, sorted by index
Node_load(id, files) ==
    LET good == {i \in DOMAIN files : files[i].ok}
        order == SortedSeq(good)
    IN  [id |-> id, chests |-> [k \in 1..Len(order) |-> files[order[k]].v]]

\* Storage::load: one node per numbered folder of data/storage (pushed in
\* read_dir order; the disks of this model hold at most one node)
Storage_load(sdir) ==
    LET order == SortedSeq(DOMAIN sdir.nodes)
    IN  [nodes |-> [k \in 1..Len(order) |->
                        Node_load(order[k], sdir.nodes[order[k]])]]

(***************************************************************************)
(* Store::save.  fault says where an io error strikes (at = "none": no     *)
(* error) and how far the failing save_all or Storage::save got.  Pair, User and Order      *)
(* errors are returned with `?`; Storage::save(..).unwrap() panics.        *)
(* Trade::save_all is not called.                                          *)
(***************************************************************************)
NoFault == [at |-> "none", written |-> {}, removed |-> {}, chests |-> {}]

SaveRet(res, d) == [res |-> res, disk |-> d]

save(pairs0, users0, orders0, storage0, d, fault) ==
    IF fault.at = "pairs"
    THEN SaveRet("Err", [d EXCEPT !.pairs =
             SaveAllFailed(@, PairFiles(pairs0), fault.written, fault.removed)])
    ELSE LET d1 == [d EXCEPT !.pairs = Pair_save_all(@, pairs0)]
    IN  IF fault.at = "users"
        THEN SaveRet("Err", [d1 EXCEPT !.users =
                 SaveAllFailed(@, UserFiles(users0), fault.written, fault.removed)])
        ELSE LET d2 == [d1 EXCEPT !.users = User_save_all(@, users0)]
        IN  IF fault.at = "orders"
            THEN SaveRet("Err", d2)
            ELSE LET d3 == [d2 EXCEPT !.orders = Order_save_all(orders0)]
            IN  IF fault.at = "storage"
                THEN SaveRet("Panic", [d3 EXCEPT !.storage =
                         WriteChests(@, fault.chests)])
                ELSE SaveRet("Ok", [d3 EXCEPT !.storage =
                         Storage_save(@, storage0)])

\* The io errors that can strike one call of Store::save.  The save_all of a
\* map fails after any part of its files (HashMap order); Storage::save
\* writes the chests in order and fails at one of them.
Orphans(dir, files) == (DOMAIN dir.files) \ (DOMAIN files)

DirFaults(at, dir, files) ==
    {[at |-> at, written |-> w, removed |-> {}, chests |-> {}] :
        w \in (SUBSET DOMAIN files) \ {DOMAIN files}}
    \cup {[at |-> at, written |-> DOMAIN files, removed |-> r, chests |-> {}] :
        r \in SUBSET Orphans(dir, files)}

SaveFaults(pairs0, users0, orders0, storage0, d) ==
    DirFaults("pairs", d.pairs, PairFiles(pairs0))
    \cup DirFaults("users", d.users, UserFiles(users0))
    \cup {[at |-> "orders", written |-> {}, removed |-> {}, chests |-> {}]}
    \cup {[at |-> "storage", written |-> {}, removed |-> {},
            chests |-> {c \in ChestsOf(storage0) : c.id < bad.id}] :
            bad \in ChestsOf(storage0)}

(***************************************************************************)
(* State.                                                                  *)
(*   users, pairs, orders, trades, storage  the Store's fields             *)
(*   disk       the files under data/                                      *)
(*   store_rx   the Store's inbox (mpsc), bot_rx the bot's                 *)
(*   storePc    where the Store task stands: "recv" (awaiting a message),  *)
(*              "handle" (a message dequeued), "await_ack" (awaiting the   *)
(*              bot's shutdown acknowledgment), "done", "panicked"         *)
(*   cur        the message being processed                                *)
(*   botPc, connected   the bot task and its game session                  *)
(*   cliPc, reply       the console and the oneshot of its open request    *)
(*   ack        the oneshot of the Shutdown instruction sent to the bot    *)
(*   panicAt    the call whose unwrap ended the Store task                 *)
(*   lastSave   how the latest Store::save ended                           *)
(*   faults     io errors met so far                                       *)
(*   nSent, nRecv, nSaved   messages sent, dequeued, and post-message      *)
(*              saves completed                                            *)
(*   lastPay, nPay      the latest direct call of Store::pay (its          *)
(*              arguments, the users before it, what it returned) and the  *)
(*              number of such calls                                       *)
(*   sentBy     how many messages each sender has put on the inbox         *)
(*   took       for each sender, the number (among that sender's           *)
(*              messages) of the latest message the Store dequeued         *)
(*   shutdownLog  what happened to the Shutdown request in progress, in    *)
(*              order (the events the tasks log)                           *)
(*   lastRepo   the latest direct call of save_all or load_all: the         *)
(*              entity, the collection given or (for a load_all that       *)
(*              follows a successful save_all of the same entity) saved    *)
(*              just before, the result, the collection got, the           *)
(*              directory as the call found it, the number of calls so far *)
(*   lastGeo    the latest direct call of Chest::new, Chest::load_by_id or  *)
(*              Node::new: its arguments and what it computed              *)
(*   lastHandled  the latest direct call of a handler: the message, the    *)
(*              Store's collections before it, how the handler ended, the  *)
(*              notice it made for the player, the number of calls so far  *)
(***************************************************************************)
VARIABLES users, pairs, orders, trades, storage, disk,
          store_rx, bot_rx, storePc, cur,
          botPc, connected, cliPc, reply, ack,
          panicAt, lastSave, faults, nSent, nRecv, nSaved,
          lastPay, nPay,
          sentBy, took, shutdownLog, lastHandled, lastRepo, lastGeo

memVars  == <<pairs, orders, trades, storage>>
peerVars == <<store_rx, bot_rx, cur, botPc, connected, cliPc, reply, ack>>
logVars  == <<panicAt, lastSave, faults, nSent, nRecv, nSaved>>
payVars  == <<lastPay, nPay>>
obsVars  == <<sentBy, took, shutdownLog, lastHandled, lastRepo, lastGeo>>

vars == <<users, storePc, disk, memVars, peerVars, logVars, payVars, obsVars>>

(***************************************************************************)
(* The files a Store can find under data/ when it starts.                  *)
(***************************************************************************)
FreshDisk ==
    [pairs |-> NoDir, users |-> NoDir, orders |-> NoFile, trades |-> NoDir,
     storage |-> [exists |-> FALSE, nodes |-> EmptyMap]]

DiamondPair ==
    [item |-> "diamond", item_stock |-> 1, currency_stock |-> Fin(1)]

Order1 ==
    [order_type |-> "Buy", item |-> "diamond", amount |-> 1,
     user_uuid |-> "uuid-a"]

Trade1 ==
    [trade_type |-> "Buy", item |-> "diamond", amount |-> 1,
     amount_currency |-> Fin(1), user_uuid |-> "uuid-a", timestamp |-> 1]

StoredName(id) == IF id = "uuid-a" THEN "alice" ELSE "bob"

\* The users map holding balance bal[id] for every id of bal.
UsersOf(bal) ==
    [id \in DOMAIN bal |->
        [uuid |-> id, username |-> StoredName(id), balance |-> Fin(bal[id])]]

\* With(files, junk): files, plus a file "broken" that does not deserialize.
With(files, junk) ==
    IF junk
    THEN [n \in (DOMAIN files) \cup {"broken"} |->
             IF n = "broken" THEN Junk ELSE files[n]]
    ELSE files

\* A disk written by earlier runs: one pair, the accounts of bal, one order,
\* one trade, node 0 with its four chests; with junk, a file that does not
\* deserialize in data/pairs, data/users and data/trades.
StockedDisk(bal, junk) ==
    [pairs   |-> Dir(With(PairFiles([diamond |-> DiamondPair]), junk)),
     users   |-> Dir(With(UserFiles(UsersOf(bal)), junk)),
     orders  |-> Order_save_all(<<Order1>>),
     trades  |-> Dir(With(TradeFiles({Trade1}), junk)),
     storage |-> WriteChests([exists |-> TRUE, nodes |-> EmptyMap],
                             {NewChest(0, i) : i \in 0..3})]

InitialDisks ==
    {FreshDisk,
     StockedDisk([x \in {"uuid-a"} |-> MaxBalance], FALSE),
     StockedDisk([x \in Uuids |-> IF x = "uuid-a" THEN MaxBalance ELSE 0], TRUE)}

(***************************************************************************)
(* Messages (messages.rs).                                                 *)
(***************************************************************************)
NoMsg == [kind |-> "none", player |-> "", command |-> <<>>, item |-> ""]

\* StoreMessage::FromBot(BotMessage::PlayerCommand {player_name, command})
PlayerCommand(player, command) ==
    [kind |-> "PlayerCommand", player |-> player, command |-> command,
     item |-> ""]

\* StoreMessage::FromCli(CliMessage::...), each with its respond_to
CliRequest(kind, item) ==
    [kind |-> kind, player |-> "", command |-> <<>>, item |-> item]

CliRequests ==
    {CliRequest("QueryBalances", ""), CliRequest("RestartBot", ""),
     CliRequest("Shutdown", "")}
    \cup {CliRequest("UpdatePrice", i) : i \in {"diamond", "emerald"}}

\* A message on the inbox, with its sender ("bot" or "cli") and its number
\* among the messages of that sender.
Sent(from, n, m) == [from |-> from, n |-> n, msg |-> m]

\* The whispers the model draws.
ChatPlayers == {"alice", "bob", "ghost"}

ChatCommands ==
    {<<"buy", "diamond", "1">>, <<"sell", "emerald", "1">>, <<"bal">>,
     <<"pay", "bob", "1">>, <<"pay", "alice", "NaN">>, <<"pay", "bob">>,
     <<"hello">>}

\* A oneshot reply channel: no request open, pending, sent (with the value),
\* or closed (its sender dropped without a send).
NoReply == [st |-> "none", kind |-> "", val |-> Ok("")]
Replied(kind, val) == [st |-> "sent", kind |-> kind, val |-> val]

\* No call of save_all or load_all yet.
NoGeo == [op |-> "none"]

NoRepo ==
    [op |-> "none", entity |-> "", ret |-> "", afterSave |-> FALSE,
     given |-> {}, got |-> {}, before |-> NoDir, n |-> 0]

\* Nothing handled yet.
NoHandled ==
    [msg |-> NoMsg,
     before |-> [users |-> EmptyMap, pairs |-> EmptyMap, orders |-> <<>>,
                 trades |-> {}, storage |-> [nodes |-> <<>>]],
     res |-> "", notice |-> Notice(""), n |-> 0]

NoPay ==
    [called |-> FALSE, payer |-> "", payee |-> "", amount |-> Fin(0),
     before |-> EmptyMap, res |-> "", why |-> ""]

PayRecord(payer, payee, amount, before, r) ==
    [called |-> TRUE, payer |-> payer, payee |-> payee, amount |-> amount,
     before |-> before, res |-> r.res, why |-> r.why]

(***************************************************************************)
(* SpecPay: Store::pay called directly (it is a pub fn) on a Store whose   *)
(* users were loaded from disk, with every username and every amount.      *)
(***************************************************************************)
\* The users a Store can start with: each account on file holds a finite,
\* non-negative balance and the name last seen for it.
InitialUsers ==
    UNION { [ids -> 0..MaxAmount] : ids \in SUBSET Uuids }

Amounts == {Fin(n) : n \in -1..MaxAmount} \cup {NaN, PInf, NInf}

InitPay ==
    /\ users \in {UsersOf(bal) : bal \in InitialUsers}
    /\ storePc = "recv"
    /\ lastPay = NoPay
    /\ nPay = 0
    /\ pairs = EmptyMap /\ orders = <<>> /\ trades = {}
    /\ storage = [nodes |-> <<>>]
    /\ disk = FreshDisk
    /\ store_rx = <<>> /\ bot_rx = <<>> /\ cur = NoMsg
    /\ botPc = "ended" /\ connected = FALSE
    /\ cliPc = "exited" /\ reply = NoReply /\ ack = "none"
    /\ panicAt = "" /\ lastSave = "none" /\ faults = 0
    /\ nSent = 0 /\ nRecv = 0 /\ nSaved = 0
    /\ sentBy = [bot |-> 0, cli |-> 0] /\ took = [bot |-> 0, cli |-> 0]
    /\ shutdownLog = <<>> /\ lastHandled = NoHandled
    /\ lastRepo = NoRepo
    /\ lastGeo = NoGeo

PayCall(payer, payee, amount) ==
    /\ storePc = "recv"
    /\ nPay < MaxPayCalls
    /\ nPay' = nPay + 1
    /\ LET r == pay(users, payer, payee, amount)
       IN  /\ users' = r.users
           /\ lastPay' = PayRecord(payer, payee, amount, users, r)
           /\ storePc' = IF r.res = "Panic" THEN "panicked" ELSE "recv"
    /\ UNCHANGED <<disk, memVars, peerVars, logVars, obsVars>>

NextPay ==
    \E payer \in Usernames, payee \in Usernames, amount \in Amounts :
        PayCall(payer, payee, amount)

SpecPay == InitPay /\ [][NextPay]_vars

(***************************************************************************)
(* Spec: the Store task (Store::run), the bot task and the console, as     *)
(* main spawns them, joined by the two mpsc channels.                      *)
(***************************************************************************)
\* Store::new: every collection loaded from disk; Storage::load creates
\* data/storage when it is missing.
Init ==
    /\ \E d0 \in InitialDisks :
          /\ pairs = Pair_load_all(d0.pairs)
          /\ users = User_load_all(d0.users)
          /\ orders = Order_load_all(d0.orders)
          /\ trades = Trade_load_all(d0.trades)
          /\ storage = Storage_load(d0.storage)
          /\ disk = [d0 EXCEPT !.storage.exists = TRUE]
    /\ store_rx = <<>> /\ bot_rx = <<>> /\ cur = NoMsg
    /\ storePc = "recv"
    /\ botPc = "starting" /\ connected = FALSE
    /\ cliPc = "menu" /\ reply = NoReply /\ ack = "none"
    /\ panicAt = "" /\ lastSave = "none" /\ faults = 0
    /\ nSent = 0 /\ nRecv = 0 /\ nSaved = 0
    /\ lastPay = NoPay /\ nPay = 0
    /\ sentBy = [bot |-> 0, cli |-> 0] /\ took = [bot |-> 0, cli |-> 0]
    /\ shutdownLog = <<>> /\ lastHandled = NoHandled
    /\ lastRepo = NoRepo
    /\ lastGeo = NoGeo

StoreAlive == storePc \notin {"done", "panicked"}

\* The Store's collections.
Mem ==
    [users |-> users, pairs |-> pairs, orders |-> orders, trades |-> trades,
     storage |-> storage]

\* The handler of message m ran on the present collections and ended with
\* res, leaving notice for the player.
Handled(m, res, notice) ==
    [msg |-> m, before |-> Mem, res |-> res, notice |-> notice,
     n |-> lastHandled.n + 1]

\* The io errors one call of Store::save can meet on users u and disk d
\* after k io errors (NoFault: none).
FaultChoices(u, d, k) ==
    {NoFault} \cup
    (IF k < MaxIoFaults THEN SaveFaults(pairs, u, orders, storage, d) ELSE {})

\* One call of Store::save under fault f: how it ended, the disk it leaves,
\* the io errors so far.
SaveOutcome(u, d, k, f) ==
    LET r == save(pairs, u, orders, storage, d, f)
    IN  [res |-> r.res, disk |-> r.disk,
         faults |-> IF f.at = "none" THEN k ELSE k + 1]

\* The Store task unwinds: its receiver is dropped with the messages still
\* queued, and with them every respond_to not yet used.
Unwind(at, rep) ==
    /\ storePc' = "panicked"
    /\ panicAt' = at
    /\ store_rx' = <<>>
    /\ cur' = NoMsg
    /\ reply' = IF rep.st = "pending" THEN [rep EXCEPT !.st = "closed"] ELSE rep

\* run, after a handler returned: the save of store.rs:81, then back to recv.
PostSave(u, d, k, rep) ==
    \E f \in FaultChoices(u, d, k) :
      LET o == SaveOutcome(u, d, k, f)
      IN
        /\ disk' = o.disk
        /\ faults' = o.faults
        /\ lastSave' = o.res
        /\ IF o.res = "Panic"
           THEN Unwind("Storage::save", rep) /\ nSaved' = nSaved
           ELSE /\ storePc' = "recv"
                /\ panicAt' = panicAt
                /\ store_rx' = store_rx
                /\ cur' = NoMsg
                /\ reply' = rep
                /\ nSaved' = nSaved + 1

\* A loop that takes the next message whatever the Store is doing, without
\* waiting for the handler and the save of the previous one.
StoreRecvWhileBusy ==
    /\ StoreAlive
    /\ store_rx # <<>>
    /\ cur' = Head(store_rx).msg
    /\ took' = [took EXCEPT ![Head(store_rx).from] = Head(store_rx).n]
    /\ store_rx' = Tail(store_rx)
    /\ storePc' = "handle"
    /\ nRecv' = nRecv + 1
    /\ UNCHANGED <<sentBy, shutdownLog, lastHandled, lastRepo, lastGeo>>
    /\ UNCHANGED <<users, disk, memVars, bot_rx, botPc, connected, cliPc,
                   reply, ack, panicAt, lastSave, faults, nSent, nSaved,
                   payVars>>

\* A loop that takes the newest message of the inbox instead of the oldest.
StoreRecvNewest ==
    /\ storePc = "recv"
    /\ store_rx # <<>>
    /\ LET last == store_rx[Len(store_rx)]
       IN  /\ cur' = last.msg
           /\ took' = [took EXCEPT ![last.from] = last.n]
    /\ store_rx' = SubSeq(store_rx, 1, Len(store_rx) - 1)
    /\ storePc' = "handle"
    /\ nRecv' = nRecv + 1
    /\ UNCHANGED <<sentBy, shutdownLog, lastHandled, lastRepo, lastGeo>>
    /\ UNCHANGED <<users, disk, memVars, bot_rx, botPc, connected, cliPc,
                   reply, ack, panicAt, lastSave, faults, nSent, nSaved,
                   payVars>>

\* store_rx.recv().await returned Some(message)
StoreRecv ==
    /\ storePc = "recv"
    /\ store_rx # <<>>
    /\ cur' = Head(store_rx).msg
    /\ took' = [took EXCEPT ![Head(store_rx).from] = Head(store_rx).n]
    /\ store_rx' = Tail(store_rx)
    /\ storePc' = "handle"
    /\ nRecv' = nRecv + 1
    /\ UNCHANGED <<sentBy, shutdownLog, lastHandled, lastRepo, lastGeo>>
    /\ UNCHANGED <<users, disk, memVars, bot_rx, botPc, connected, cliPc,
                   reply, ack, panicAt, lastSave, faults, nSent, nSaved,
                   payVars>>

\* FromBot(PlayerCommand): handle_player_command, then the save
StoreHandlePlayerCommand ==
    /\ storePc = "handle"
    /\ cur.kind = "PlayerCommand"
    /\ LET h == handle_player_command(users, pairs, cur.player, cur.command)
       IN  IF h.res = "Panic"
           THEN /\ Unwind(h.why, reply)
                /\ UNCHANGED <<users, disk, faults, lastSave, nSaved>>
           ELSE /\ users' = h.users
                /\ PostSave(h.users, disk, faults, reply)
    /\ UNCHANGED obsVars
    /\ UNCHANGED <<memVars, bot_rx, botPc, connected, cliPc, ack, nSent,
                   nRecv, payVars>>

\* FromCli(QueryBalances): the users are sent back, then the save
StoreHandleQueryBalances ==
    /\ storePc = "handle"
    /\ cur.kind = "QueryBalances"
    /\ PostSave(users, disk, faults, Replied("QueryBalances", Values(users)))
    /\ UNCHANGED obsVars
    /\ UNCHANGED <<users, memVars, bot_rx, botPc, connected, cliPc, ack,
                   nSent, nRecv, payVars>>

\* FromCli(UpdatePrice): update_item_price's result is sent back, then the save
StoreHandleUpdatePrice ==
    /\ storePc = "handle"
    /\ cur.kind = "UpdatePrice"
    /\ PostSave(users, disk, faults,
                Replied("UpdatePrice", update_item_price(pairs, cur.item)))
    /\ UNCHANGED obsVars
    /\ UNCHANGED <<users, memVars, bot_rx, botPc, connected, cliPc, ack,
                   nSent, nRecv, payVars>>

\* A RestartBot handler that ignores the result of bot_tx.send and answers
\* Ok whether or not the instruction was enqueued.
StoreHandleRestartBotUnchecked ==
    /\ storePc = "handle"
    /\ cur.kind = "RestartBot"
    /\ IF botPc = "ended"
       THEN bot_rx' = bot_rx
       ELSE /\ Len(bot_rx) < OutboxCap
            /\ bot_rx' = Append(bot_rx, "Restart")
    /\ PostSave(users, disk, faults, Replied("RestartBot", Ok("")))
    /\ UNCHANGED obsVars
    /\ UNCHANGED <<users, memVars, botPc, connected, cliPc, ack, nSent,
                   nRecv, payVars>>

\* FromCli(RestartBot): Restart is sent to the bot (the send waits for room,
\* and fails once the bot dropped its receiver), then the save
StoreHandleRestartBot ==
    /\ storePc = "handle"
    /\ cur.kind = "RestartBot"
    /\ IF botPc = "ended"
       THEN /\ bot_rx' = bot_rx
            /\ PostSave(users, disk, faults,
                        Replied("RestartBot", Err("Failed to send restart instruction")))
       ELSE /\ Len(bot_rx) < OutboxCap
            /\ bot_rx' = Append(bot_rx, "Restart")
            /\ PostSave(users, disk, faults, Replied("RestartBot", Ok("")))
    /\ UNCHANGED obsVars
    /\ UNCHANGED <<users, memVars, botPc, connected, cliPc, ack, nSent,
                   nRecv, payVars>>

\* FromCli(Shutdown), first half: Shutdown is sent to the bot with a fresh
\* oneshot, whose answer the Store then awaits.
StoreShutdownSend ==
    /\ storePc = "handle"
    /\ cur.kind = "Shutdown"
    /\ IF botPc = "ended"
       THEN /\ bot_rx' = bot_rx
            /\ ack' = "dropped"
            /\ shutdownLog' = <<"send failed">>
       ELSE /\ Len(bot_rx) < OutboxCap
            /\ bot_rx' = Append(bot_rx, "Shutdown")
            /\ ack' = "pending"
            /\ shutdownLog' = <<"sent">>
    /\ storePc' = "await_ack"
    /\ UNCHANGED <<sentBy, took, lastHandled, lastRepo, lastGeo>>
    /\ UNCHANGED <<users, disk, memVars, store_rx, cur, botPc, connected,
                   cliPc, reply, logVars, payVars>>

\* A Shutdown handler that does not wait for bot_response_rx: it saves and
\* answers the console while the bot may still hold the instruction.
StoreShutdownFinishEarly ==
    /\ storePc = "await_ack"
    /\ ack \in {"pending", "acked", "dropped"}
    /\ ack' = IF ack = "pending" THEN ack ELSE "none"
    /\ \E f \in FaultChoices(users, disk, faults) :
        LET o == SaveOutcome(users, disk, faults, f)
        IN
          IF o.res = "Panic"
          THEN /\ Unwind("Storage::save", reply)
               /\ disk' = o.disk
               /\ faults' = o.faults
               /\ lastSave' = o.res
               /\ nSaved' = nSaved
               /\ shutdownLog' = Append(shutdownLog, "save")
          ELSE /\ PostSave(users, o.disk, o.faults, Replied("Shutdown", Ok("")))
               /\ shutdownLog' = shutdownLog \o <<"save", "reply">>
    /\ UNCHANGED <<sentBy, took, lastHandled, lastRepo, lastGeo>>
    /\ UNCHANGED <<users, memVars, bot_rx, botPc, connected, cliPc, nSent,
                   nRecv, payVars>>

\* FromCli(Shutdown), second half: the bot answered or dropped the oneshot;
\* the Store saves, answers the console, and run saves again.
StoreShutdownFinish ==
    /\ storePc = "await_ack"
    /\ ack \in {"acked", "dropped"}
    /\ ack' = "none"
    /\ \E f \in FaultChoices(users, disk, faults) :
        LET o == SaveOutcome(users, disk, faults, f)
        IN
          IF o.res = "Panic"
          THEN /\ Unwind("Storage::save", reply)
               /\ disk' = o.disk
               /\ faults' = o.faults
               /\ lastSave' = o.res
               /\ nSaved' = nSaved
               /\ shutdownLog' = Append(shutdownLog, "save")
          ELSE /\ PostSave(users, o.disk, o.faults, Replied("Shutdown", Ok("")))
               /\ shutdownLog' = shutdownLog \o <<"save", "reply">>
    /\ UNCHANGED <<sentBy, took, lastHandled, lastRepo, lastGeo>>
    /\ UNCHANGED <<users, memVars, bot_rx, botPc, connected, cliPc, nSent,
                   nRecv, payVars>>

\* Who holds a sender of the outbound instruction channel: main keeps the
\* bot_tx it created for as long as the tasks run; the Store task holds its
\* field and the argument of run until run returns or unwinds.
OutboundSenders == {"main"} \cup (IF StoreAlive THEN {"store"} ELSE {})

\* Every sender of the inbox is dropped once the bot task and the console
\* have ended.
InboundClosed == botPc = "ended" /\ cliPc = "exited"

\* store_rx.recv().await returned None: the final save, then run returns.
StoreChannelClosed ==
    /\ storePc = "recv"
    /\ store_rx = <<>>
    /\ InboundClosed
    /\ \E f \in FaultChoices(users, disk, faults) :
        LET o == SaveOutcome(users, disk, faults, f)
        IN
          /\ disk' = o.disk
          /\ faults' = o.faults
          /\ lastSave' = o.res
          /\ storePc' = IF o.res = "Panic" THEN "panicked" ELSE "done"
          /\ panicAt' = IF o.res = "Panic" THEN "Storage::save" ELSE panicAt
    /\ UNCHANGED <<users, memVars, peerVars, nSent, nRecv, nSaved, payVars,
                   obsVars>>

\* bot_task returns before its loop: Bot::new or connect failed.  Its
\* receiver is dropped with what is queued on it.
BotStartFails ==
    /\ botPc = "starting"
    /\ botPc' = "ended"
    /\ bot_rx' = <<>>
    /\ ack' = IF ack = "pending" THEN "dropped" ELSE ack
    /\ shutdownLog' = IF ack = "pending"
                      THEN Append(shutdownLog, "dropped") ELSE shutdownLog
    /\ UNCHANGED <<sentBy, took, lastHandled, lastRepo, lastGeo>>
    /\ UNCHANGED <<users, storePc, disk, memVars, store_rx, cur, connected,
                   cliPc, reply, logVars, payVars>>

BotConnects ==
    /\ botPc = "starting"
    /\ botPc' = "running"
    /\ connected' = TRUE
    /\ UNCHANGED obsVars
    /\ UNCHANGED <<users, storePc, disk, memVars, store_rx, bot_rx, cur,
                   cliPc, reply, ack, logVars, payVars>>

\* BotInstruction::Restart: disconnect, then connect, which may fail
BotRestart ==
    /\ botPc = "running"
    /\ bot_rx # <<>>
    /\ Head(bot_rx) = "Restart"
    /\ bot_rx' = Tail(bot_rx)
    /\ \E c \in BOOLEAN : connected' = c
    /\ UNCHANGED obsVars
    /\ UNCHANGED <<users, storePc, disk, memVars, store_rx, cur, botPc,
                   cliPc, reply, ack, logVars, payVars>>

\* BotInstruction::Shutdown: disconnect, answer the oneshot, leave the loop
BotShutdown ==
    /\ botPc = "running"
    /\ bot_rx # <<>>
    /\ Head(bot_rx) = "Shutdown"
    /\ bot_rx' = <<>>
    /\ ack' = "acked"
    /\ shutdownLog' = Append(shutdownLog, "acked")
    /\ botPc' = "ended"
    /\ connected' = FALSE
    /\ UNCHANGED <<sentBy, took, lastHandled, lastRepo, lastGeo>>
    /\ UNCHANGED <<users, storePc, disk, memVars, store_rx, cur, cliPc,
                   reply, logVars, payVars>>

\* handle_chat_message: a whisper is forwarded to the Store as a
\* PlayerCommand (the send waits for room in the inbox).
ChatWhisper(player, command) ==
    /\ botPc = "running"
    /\ connected
    /\ StoreAlive
    /\ Len(store_rx) < InboxCap
    /\ nSent < MaxMsgs
    /\ store_rx' = Append(store_rx, Sent("bot", sentBy.bot + 1,
                                         PlayerCommand(player, command)))
    /\ sentBy' = [sentBy EXCEPT !.bot = @ + 1]
    /\ nSent' = nSent + 1
    /\ UNCHANGED <<took, shutdownLog, lastHandled, lastRepo, lastGeo>>
    /\ UNCHANGED <<users, storePc, disk, memVars, bot_rx, cur, botPc,
                   connected, cliPc, reply, ack, panicAt, lastSave, faults,
                   nRecv, nSaved, payVars>>

\* The console sends a request with a fresh oneshot and blocks on the answer.
CliSend(m) ==
    /\ cliPc = "menu"
    /\ StoreAlive
    /\ Len(store_rx) < InboxCap
    /\ nSent < MaxMsgs
    /\ store_rx' = Append(store_rx, Sent("cli", sentBy.cli + 1, m))
    /\ sentBy' = [sentBy EXCEPT !.cli = @ + 1]
    /\ UNCHANGED <<took, shutdownLog, lastHandled, lastRepo, lastGeo>>
    /\ reply' = [st |-> "pending", kind |-> m.kind, val |-> Ok("")]
    /\ cliPc' = "waiting"
    /\ nSent' = nSent + 1
    /\ UNCHANGED <<users, storePc, disk, memVars, bot_rx, cur, botPc,
                   connected, ack, panicAt, lastSave, faults, nRecv, nSaved,
                   payVars>>

\* blocking_recv returns: the answer, or an error when the sender was dropped
CliRecvReply ==
    /\ cliPc = "waiting"
    /\ reply.st \in {"sent", "closed"}
    /\ cliPc' = "menu"
    /\ reply' = NoReply
    /\ UNCHANGED obsVars
    /\ UNCHANGED <<users, storePc, disk, memVars, store_rx, bot_rx, cur,
                   botPc, connected, ack, logVars, payVars>>

CliExit ==
    /\ cliPc = "menu"
    /\ cliPc' = "exited"
    /\ UNCHANGED obsVars
    /\ UNCHANGED <<users, storePc, disk, memVars, store_rx, bot_rx, cur,
                   botPc, connected, reply, ack, logVars, payVars>>

Next ==
    \/ StoreRecv
    \/ StoreHandlePlayerCommand
    \/ StoreHandleQueryBalances
    \/ StoreHandleUpdatePrice
    \/ StoreHandleRestartBot
    \/ StoreShutdownSend
    \/ StoreShutdownFinish
    \/ StoreChannelClosed
    \/ BotStartFails
    \/ BotConnects
    \/ BotRestart
    \/ BotShutdown
    \/ \E p \in ChatPlayers, c \in ChatCommands : ChatWhisper(p, c)
    \/ \E m \in CliRequests : CliSend(m)
    \/ CliRecvReply
    \/ CliExit

Spec == Init /\ [][Next]_vars

\* One turn of the Store task: Store::run takes a message, handles it and
\* saves, or ends on the closed inbox.
StoreStep ==
    \/ StoreRecv
    \/ StoreHandlePlayerCommand
    \/ StoreHandleQueryBalances
    \/ StoreHandleUpdatePrice
    \/ StoreHandleRestartBot
    \/ StoreShutdownSend
    \/ StoreShutdownFinish
    \/ StoreChannelClosed

\* One turn of bot_task: it starts (or fails to), or its instruction loop
\* takes the instruction at the head of bot_rx.
BotStep ==
    \/ BotStartFails
    \/ BotConnects
    \/ BotRestart
    \/ BotShutdown

(***************************************************************************)
(* SpecRepo: save_all and load_all of Pair, User and Trade, and            *)
(* Order::load_all, called directly (all pub fn) with every collection of  *)
(* the model on directories that are missing, or hold the files of an      *)
(* earlier save together with a file that does not deserialize, an entry   *)
(* that is no .json file, or two files for one key.                        *)
(***************************************************************************)
Entities == {"pairs", "users", "trades"}

EmeraldPair ==
    [item |-> "emerald", item_stock |-> 0, currency_stock |-> Fin(0)]

\* A pair whose currency stock is not finite.
GoldPair == [item |-> "gold", item_stock |-> 2, currency_stock |-> NaN]

Alice1 == [uuid |-> "uuid-a", username |-> "alice", balance |-> Fin(1)]
Alice2 == [uuid |-> "uuid-a", username |-> "al", balance |-> Fin(2)]
Bob0 == [uuid |-> "uuid-b", username |-> "bob", balance |-> Fin(0)]

\* bob's account after a payment of NaN.
BobNaN == [uuid |-> "uuid-b", username |-> "bob", balance |-> NaN]

Trade2 == [Trade1 EXCEPT !.timestamp = 2, !.item = "emerald"]
Trade3 == [Trade1 EXCEPT !.timestamp = 3, !.amount = 2]

\* A trade made at the very moment of Trade1.
Trade1Sell == [Trade1 EXCEPT !.trade_type = "Sell"]

\* The key of an entity: HashMap key of pairs and users; trades have none.
KeyOf(e, x) ==
    IF e = "pairs" THEN x.item
    ELSE IF e = "users" THEN x.uuid
    ELSE x

\* The name (before ".json") of the file save() writes for an entity.
FileNameOf(e, x) ==
    IF e = "pairs" THEN x.item
    ELSE IF e = "users" THEN x.uuid
    ELSE TradeFileName(x)

\* The map a set of entities with distinct keys makes.
MapOf(e, S) ==
    [k \in {KeyOf(e, x) : x \in S} |-> CHOOSE x \in S : KeyOf(e, x) = k]

EntityPool(e) ==
    IF e = "pairs" THEN {DiamondPair, EmeraldPair, GoldPair}
    ELSE IF e = "users" THEN {Alice1, Bob0, BobNaN}
    ELSE {Trade1, Trade2, Trade3, Trade1Sell}

\* The collections given to save_all, as the set of their entities: a
\* HashMap holds one entity per key, a Vec<Trade> any trades.
Given(e) ==
    {S \in SUBSET EntityPool(e) :
        \A x, y \in S : KeyOf(e, x) = KeyOf(e, y) => x = y}

\* The files save_all writes for the collection S.
FilesOf(e, S) ==
    IF e = "pairs" THEN PairFiles(MapOf(e, S))
    ELSE IF e = "users" THEN UserFiles(MapOf(e, S))
    ELSE TradeFiles(S)

\* The three entities an earlier run saved.
Earlier(e) ==
    IF e = "pairs" THEN {DiamondPair, EmeraldPair, GoldPair}
    ELSE IF e = "users" THEN {Alice1, Bob0}
    ELSE {Trade1, Trade2, Trade3}

\* A second file holding, under another name, an entity with the key of
\* an entity of another file (alice's account as it was, a pair copied).
CopyOf(e) ==
    IF e = "pairs" THEN [DiamondPair EXCEPT !.item_stock = 2]
    ELSE IF e = "users" THEN Alice2
    ELSE Trade1Sell

RepoDir(e, style) ==
    IF style = "missing" THEN NoDir
    ELSE IF style = "stocked"
    THEN [Dir(With(FilesOf(e, Earlier(e)), TRUE))
             EXCEPT !.others = {"notes.txt"}]
    ELSE Dir([n \in (DOMAIN FilesOf(e, Earlier(e))) \cup {"copy"} |->
                 IF n = "copy" THEN Ok(CopyOf(e))
                 ELSE FilesOf(e, Earlier(e))[n]])

RepoDisk(style) ==
    [pairs   |-> RepoDir("pairs", style),
     users   |-> RepoDir("users", style),
     trades  |-> RepoDir("trades", style),
     orders  |-> IF style = "missing" THEN NoFile
                 ELSE IF style = "stocked" THEN [exists |-> TRUE, parse |-> Junk]
                 ELSE Order_save_all(<<Order1>>),
     storage |-> [exists |-> FALSE, nodes |-> EmptyMap]]

InitRepo ==
    /\ disk \in {RepoDisk(style) : style \in {"missing", "stocked", "copied"}}
    /\ users = EmptyMap /\ pairs = EmptyMap /\ orders = <<>> /\ trades = {}
    /\ storage = [nodes |-> <<>>]
    /\ storePc = "recv"
    /\ lastPay = NoPay /\ nPay = 0
    /\ store_rx = <<>> /\ bot_rx = <<>> /\ cur = NoMsg
    /\ botPc = "ended" /\ connected = FALSE
    /\ cliPc = "exited" /\ reply = NoReply /\ ack = "none"
    /\ panicAt = "" /\ lastSave = "none" /\ faults = 0
    /\ nSent = 0 /\ nRecv = 0 /\ nSaved = 0
    /\ sentBy = [bot |-> 0, cli |-> 0] /\ took = [bot |-> 0, cli |-> 0]
    /\ shutdownLog = <<>> /\ lastHandled = NoHandled
    /\ lastRepo = NoRepo
    /\ lastGeo = NoGeo

RepoFrame ==
    UNCHANGED <<users, storePc, memVars, peerVars, logVars, payVars, sentBy,
                took, shutdownLog, lastHandled, lastGeo>>

\* X::save_all(&S): it runs to its end, or an io error stops it after some
\* of the writes or some of the removals.
SaveAllCall(e, S) ==
    /\ lastRepo.n < MaxRepoCalls
    /\ \E fault \in {NoFault} \cup DirFaults(e, disk[e], FilesOf(e, S)) :
          /\ disk' = [disk EXCEPT ![e] =
                          IF fault.at = "none"
                          THEN SaveAll(@, FilesOf(e, S))
                          ELSE SaveAllFailed(@, FilesOf(e, S), fault.written,
                                             fault.removed)]
          /\ lastRepo' = [op |-> "save_all", entity |-> e,
                          ret |-> IF fault.at = "none" THEN "Ok" ELSE "Err",
                          afterSave |-> FALSE, given |-> S, got |-> {},
                          before |-> disk[e], n |-> lastRepo.n + 1]
    /\ RepoFrame

\* What load_all can return for the directory: the entities of the files
\* that deserialize; a HashMap keeps, of the entities with one key, the one
\* inserted last, which the order of read_dir decides.
LoadOutcomes(e, dir) ==
    IF ~dir.exists THEN {{}}
    ELSE IF e = "trades" THEN {ParsedOf(dir)}
    ELSE {S \in SUBSET ParsedOf(dir) :
            /\ {KeyOf(e, x) : x \in S} = {KeyOf(e, x) : x \in ParsedOf(dir)}
            /\ \A x, y \in S : KeyOf(e, x) = KeyOf(e, y) => x = y}

\* X::load_all(), after whatever was called before
LoadAllCall(e) ==
    /\ lastRepo.n < MaxRepoCalls
    /\ \E S \in LoadOutcomes(e, disk[e]) :
          lastRepo' =
              LET follows == /\ lastRepo.op = "save_all"
                             /\ lastRepo.entity = e
                             /\ lastRepo.ret = "Ok"
              IN  [op |-> "load_all", entity |-> e, ret |-> "Ok",
                   afterSave |-> follows,
                   given |-> IF follows THEN lastRepo.given ELSE {},
                   got |-> S, before |-> disk[e], n |-> lastRepo.n + 1]
    /\ UNCHANGED disk
    /\ RepoFrame

\* Order::load_all()
LoadOrdersCall ==
    /\ lastRepo.n < MaxRepoCalls
    /\ lastRepo' = [op |-> "load_all", entity |-> "orders", ret |-> "Ok",
                    afterSave |-> FALSE, given |-> {},
                    got |-> Order_load_all(disk.orders), before |-> NoDir,
                    n |-> lastRepo.n + 1]
    /\ UNCHANGED disk
    /\ RepoFrame

NextRepo ==
    \/ \E e \in Entities : \E S \in Given(e) : SaveAllCall(e, S)
    \/ \E e \in Entities : LoadAllCall(e)
    \/ LoadOrdersCall

SpecRepo == InitRepo /\ [][NextRepo]_vars

(***************************************************************************)
(* Chests, nodes and Storage with their positions.  Position, Chest.id,    *)
(* Chest.node_id and Chest.index are i32: an addition or multiplication    *)
(* that leaves the i32 range panics in a build with overflow checks (the   *)
(* debug profile) and wraps around in one without (the release profile).   *)
(* Chest.amounts (54 zeros in every new chest) is left out.                *)
(***************************************************************************)
I32Max == 2147483647
I32Min == -I32Max - 1
Two29 == 536870912
Two30 == 1073741824

\* a + b leaves the i32 range (|b| small)
AddOverflows(a, b) ==
    \/ b > 0 /\ a > I32Max - b
    \/ b < 0 /\ a < I32Min - b

\* a.wrapping_add(b)
WrapAdd(a, b) ==
    IF b > 0 /\ a > I32Max - b THEN I32Min + (b - 1) - (I32Max - a)
    ELSE IF b < 0 /\ a < I32Min - b THEN I32Max + (b + 1) + (a - I32Min)
    ELSE a + b

\* n * 4 leaves the i32 range
Mul4Overflows(n) == n > I32Max \div 4 \/ n < -Two29

\* n.wrapping_mul(4)
WrapMul4(n) ==
    LET r == n % Two30
    IN  IF r < Two29 THEN r * 4 ELSE (r - Two30) * 4

\* a / b and a % b of i32, b > 0: the quotient is rounded toward zero and
\* the remainder has the sign of a
Div(a, b) == IF a >= 0 THEN a \div b ELSE (a + b - 1) \div b
Rem(a, b) == a - b * Div(a, b)

Pos(x, y, z) == [x |-> x, y |-> y, z |-> z]

\* A chest id one too high (indices counted from 1).
ChestIdFromOne(node_id, index) == WrapAdd(WrapAdd(WrapMul4(node_id), index), 1)

\* let id = node_id * 4 + index, where it does not panic
ChestId(node_id, index) == WrapAdd(WrapMul4(node_id), index)

\* A position match that sets the chests 2 and 3 at the node's z.
ChestPositionDeep(np, index) ==
    CASE index = 0 -> Pos(np.x, WrapAdd(np.y, 1), WrapAdd(np.z, -1))
      [] index = 1 -> Pos(WrapAdd(np.x, 1), WrapAdd(np.y, 1), WrapAdd(np.z, -1))
      [] index = 2 -> Pos(np.x, np.y, np.z)
      [] index = 3 -> Pos(WrapAdd(np.x, 1), np.y, np.z)

\* The position match of Chest::new, where it does not panic
ChestPosition(np, index) ==
    CASE index = 0 -> Pos(np.x, WrapAdd(np.y, 1), WrapAdd(np.z, -1))
      [] index = 1 -> Pos(WrapAdd(np.x, 1), WrapAdd(np.y, 1), WrapAdd(np.z, -1))
      [] index = 2 -> Pos(np.x, np.y, WrapAdd(np.z, -1))
      [] index = 3 -> Pos(WrapAdd(np.x, 1), np.y, WrapAdd(np.z, -1))

\* Chest::new, index in 0..3 (any other index panics), where it does not
\* panic
Chest_new(node_id, node_position, index) ==
    [id |-> ChestId(node_id, index), node_id |-> node_id, index |-> index,
     position |-> ChestPosition(node_position, index), item |-> ""]

\* Chest::new computes a value outside i32
Chest_new_overflows(node_id, np, index) ==
    \/ Mul4Overflows(node_id)
    \/ AddOverflows(WrapMul4(node_id), index)
    \/ index \in {0, 1} /\ AddOverflows(np.y, 1)
    \/ index \in {1, 3} /\ AddOverflows(np.x, 1)
    \/ AddOverflows(np.z, -1)

\* A node_position that forgets the step in x of the chests 1 and 3.
node_position_column(chest) ==
    CASE chest.index \in {0, 1} ->
            Pos(chest.position.x, WrapAdd(chest.position.y, -1),
                WrapAdd(chest.position.z, 1))
      [] chest.index \in {2, 3} ->
            Pos(chest.position.x, chest.position.y,
                WrapAdd(chest.position.z, 1))

\* Chest::node_position, where it does not panic
node_position(chest) ==
    CASE chest.index = 0 ->
            Pos(chest.position.x, WrapAdd(chest.position.y, -1),
                WrapAdd(chest.position.z, 1))
      [] chest.index = 1 ->
            Pos(WrapAdd(chest.position.x, -1), WrapAdd(chest.position.y, -1),
                WrapAdd(chest.position.z, 1))
      [] chest.index = 2 ->
            Pos(chest.position.x, chest.position.y,
                WrapAdd(chest.position.z, 1))
      [] chest.index = 3 ->
            Pos(WrapAdd(chest.position.x, -1), chest.position.y,
                WrapAdd(chest.position.z, 1))

\* let node_id = id / 4; let index = id % 4
Decompose(id) == [node_id |-> Div(id, 4), index |-> Rem(id, 4)]

RECURSIVE LooseRingFrom(_, _)
\* A ring search that also leaves a ring whose last place the id takes.
LooseRingFrom(ring, id) ==
    IF ring * (ring + 1) * 4 <= id + 1 THEN LooseRingFrom(ring + 1, id) ELSE ring

RECURSIVE RingFrom(_, _)
\* while ring * (ring + 1) * 4 < id + 1 { ring += 1 }
RingFrom(ring, id) ==
    IF ring * (ring + 1) * 4 < id + 1 THEN RingFrom(ring + 1, id) ELSE ring

\* The ring calc_position finds for id > 0
Ring(id) == RingFrom(1, id)

\* (dx, dz) of calc_position
Offset(id) ==
    IF id = 0 THEN <<-2, 0>>
    ELSE LET ring == Ring(id)
             pos_in_ring == id - (ring - 1) * ring * 4
             side == 2 * ring
             q == Div(pos_in_ring, side)
         IN  CASE q = 0 -> <<-2 + ring, -ring + pos_in_ring>>
               [] q = 1 -> <<-2 + ring - (pos_in_ring - side), ring>>
               [] q = 2 -> <<-2 - ring, ring - (pos_in_ring - 2 * side)>>
               [] OTHER -> <<-2 - ring + (pos_in_ring - 3 * side), -ring>>

\* A calc_position that sets the nodes one block apart.
calc_position_close(id, storage_position) ==
    Pos(storage_position.x + Offset(id)[1],
        storage_position.y,
        storage_position.z + Offset(id)[2])

\* Node::calc_position (ids and origins of the model stay far from the
\* ends of i32)
calc_position(id, storage_position) ==
    Pos(storage_position.x + Offset(id)[1] * 3,
        storage_position.y,
        storage_position.z + Offset(id)[2] * 3)

\* Node::new
Node_new(node_id, storage_position) ==
    LET np == calc_position(node_id, storage_position)
    IN  [id |-> node_id, position |-> np,
         chests |-> [k \in 1..4 |-> Chest_new(node_id, np, k - 1)]]

(***************************************************************************)
(* SpecStorage: Storage::new, Storage::load, Storage::add_node and         *)
(* Storage::save, called directly on data/storage directories that are     *)
(* missing, complete, or have a chest file missing, undeserializable or    *)
(* extra.                                                                  *)
(***************************************************************************)
MaxNodeId == 48
MaxChestId == 9
MaxNodes == 3

Origin == Pos(0, 64, 0)
StoragePositions == {Origin, Pos(-100, 70, 250)}

\* The node ids given to Chest::new
NodeIds == {-1, 0, 1, 2, Two29 - 1, Two29, Two30, I32Max}

\* The node positions given to Chest::new
NodePositions ==
    StoragePositions
    \cup {Pos(I32Max, 0, 0), Pos(0, I32Max, 0), Pos(0, 0, I32Min),
          Pos(I32Max - 1, I32Max - 1, I32Min + 1)}

\* The chest ids given to load_by_id
ChestIds == (-5..MaxChestId) \cup {I32Max - 4, I32Max, I32Min, I32Min + 3}

Builds == {"debug", "release"}

NoSdir == [exists |-> FALSE, nodes |-> EmptyMap]

\* data/storage as Storage::save leaves it for the nodes ids
SavedNodes(ids) ==
    WriteChests(NoSdir,
                UNION {{Chest_new(n, calc_position(n, Origin), i) : i \in 0..3}
                       : n \in ids})

\* A chest file 4.json that deserializes.
ExtraChest ==
    [Chest_new(0, calc_position(0, Origin), 3) EXCEPT !.index = 4, !.id = 4]

\* data/storage/0 with one file missing, undeserializable or extra
Defective(how) ==
    LET whole == SavedNodes({0}).nodes[0]
    IN  [exists |-> TRUE,
         nodes |-> [n \in {0} |->
            IF how = "missing" THEN [i \in 0..2 |-> whole[i]]
            ELSE IF how = "unparsable"
            THEN [i \in 0..3 |-> IF i = 1 THEN Junk ELSE whole[i]]
            ELSE [i \in 0..4 |-> IF i = 4 THEN Ok(ExtraChest) ELSE whole[i]]]]

StorageDirStyles ==
    {"none", "one node", "two nodes", "node 1 only", "missing", "unparsable",
     "extra"}

\* data/storage as found
StorageDir(style) ==
    IF style = "none" THEN NoSdir
    ELSE IF style = "one node" THEN SavedNodes({0})
    ELSE IF style = "two nodes" THEN SavedNodes({0, 1})
    ELSE IF style = "node 1 only" THEN SavedNodes({1})
    ELSE Defective(style)

InitStorage ==
    /\ \E style \in StorageDirStyles :
          disk = [RepoDisk("missing") EXCEPT !.storage = StorageDir(style)]
    /\ \E p \in StoragePositions : storage = [position |-> p, nodes |-> <<>>]
    /\ users = EmptyMap /\ pairs = EmptyMap /\ orders = <<>> /\ trades = {}
    /\ storePc = "recv"
    /\ lastPay = NoPay /\ nPay = 0
    /\ store_rx = <<>> /\ bot_rx = <<>> /\ cur = NoMsg
    /\ botPc = "ended" /\ connected = FALSE
    /\ cliPc = "exited" /\ reply = NoReply /\ ack = "none"
    /\ panicAt = "" /\ lastSave = "none" /\ faults = 0
    /\ nSent = 0 /\ nRecv = 0 /\ nSaved = 0
    /\ sentBy = [bot |-> 0, cli |-> 0] /\ took = [bot |-> 0, cli |-> 0]
    /\ shutdownLog = <<>> /\ lastHandled = NoHandled
    /\ lastRepo = NoRepo
    /\ lastGeo = NoGeo

GeoFrame ==
    UNCHANGED <<users, storePc, pairs, orders, trades, peerVars, logVars,
                payVars, sentBy, took, shutdownLog, lastHandled, lastRepo>>

\* Chest::new(node_id, &node_position, index), then node_position() of the
\* chest and the id / 4, id % 4 of its id
ChestNewCall(node_id, np, index, build) ==
    /\ lastGeo' =
          IF build = "debug" /\ Chest_new_overflows(node_id, np, index)
          THEN [op |-> "Chest::new", node_id |-> node_id, index |-> index,
                node_position |-> np, build |-> build, st |-> "panic"]
          ELSE LET chest == Chest_new(node_id, np, index)
               IN  [op |-> "Chest::new", node_id |-> node_id,
                    index |-> index, node_position |-> np, build |-> build,
                    st |-> "built", chest |-> chest,
                    back |-> node_position(chest),
                    parts |-> Decompose(chest.id)]
    /\ UNCHANGED <<storage, disk>>
    /\ GeoFrame

\* The id / 4 and id % 4 of Chest::load_by_id(id) and get_chest_mut(id),
\* and the id its node and index make again
LoadByIdCall(id) ==
    /\ lastGeo' =
          LET parts == Decompose(id)
          IN  [op |-> "load_by_id", id |-> id, parts |-> parts,
               again |-> parts.node_id * 4 + parts.index]
    /\ UNCHANGED <<storage, disk>>
    /\ GeoFrame

\* Node::new(node_id, &storage_position)
NodeNewCall(node_id, storage_position) ==
    /\ lastGeo' =
          [op |-> "Node::new", node_id |-> node_id,
           storage_position |-> storage_position,
           ring |-> IF node_id = 0 THEN 0 ELSE Ring(node_id),
           offset |-> Offset(node_id),
           node |-> Node_new(node_id, storage_position)]
    /\ UNCHANGED <<storage, disk>>
    /\ GeoFrame

\* Storage::load(&storage_position): data/storage is created when missing;
\* every node that loads gets its position from its id
StorageLoadCall(storage_position) ==
    /\ storage' =
          LET loaded == Storage_load(disk.storage).nodes
          IN  [position |-> storage_position,
               nodes |-> [k \in DOMAIN loaded |->
                   [id |-> loaded[k].id,
                    position |-> calc_position(loaded[k].id, storage_position),
                    chests |-> loaded[k].chests]]]
    /\ disk' = [disk EXCEPT !.storage.exists = TRUE]
    /\ UNCHANGED lastGeo
    /\ GeoFrame

\* Storage::add_node
AddNodeCall ==
    /\ Len(storage.nodes) < MaxNodes
    /\ storage' = [storage EXCEPT
                      !.nodes = Append(@, Node_new(Len(storage.nodes),
                                                   storage.position))]
    /\ UNCHANGED <<disk, lastGeo>>
    /\ GeoFrame

\* Storage::save: Chest::save of every chest, node after node, until one
\* fails
StorageSaveCall ==
    /\ \/ disk' = [disk EXCEPT !.storage = Storage_save(@, storage)]
       \/ \E bad \in ChestsOf(storage) :
             disk' = [disk EXCEPT !.storage =
                         WriteChests(@, {c \in ChestsOf(storage) :
                                            c.id < bad.id})]
    /\ UNCHANGED <<storage, lastGeo>>
    /\ GeoFrame

NoChest == [found |-> FALSE]

\* Storage::get_chest_mut: the first node with id chest_id / 4, and of its
\* chests the one at place chest_id % 4 of the Vec (a negative remainder,
\* cast to usize, is past every Vec)
get_chest_mut(storage0, chest_id) ==
    LET node_id == Div(chest_id, 4)
        index == Rem(chest_id, 4)
        at == {n \in DOMAIN storage0.nodes : storage0.nodes[n].id = node_id}
    IN  IF at = {} THEN NoChest
        ELSE LET node == storage0.nodes[CHOOSE n \in at : \A m \in at : n <= m]
             IN  IF index < 0 \/ index >= Len(node.chests) THEN NoChest
                 ELSE [found |-> TRUE, chest |-> node.chests[index + 1]]

\* Storage::get_chest_mut(chest_id)
GetChestCall(chest_id) ==
    /\ lastGeo' = [op |-> "get_chest_mut", chest_id |-> chest_id,
                   ret |-> get_chest_mut(storage, chest_id)]
    /\ UNCHANGED <<storage, disk>>
    /\ GeoFrame

NextStorage ==
    \/ \E p \in StoragePositions : StorageLoadCall(p)
    \/ AddNodeCall
    \/ StorageSaveCall
    \/ \E chest_id \in -1..MaxChestId : GetChestCall(chest_id)

SpecStorage == InitStorage /\ [][NextStorage]_vars

(***************************************************************************)
(* SpecGeo: Chest::new with Chest::node_position and the id / 4, id % 4    *)
(* of Chest::load_by_id and Storage::get_chest_mut, and Node::new, called  *)
(* directly with node ids, positions and chest ids up to the ends of i32.  *)
(***************************************************************************)
InitGeo ==
    /\ InitStorage
    /\ ~disk.storage.exists
    /\ storage.position = Origin

RECURSIVE AddNodes(_, _)
\* The storage after n calls of add_node
AddNodes(storage0, n) ==
    IF n = 0 THEN storage0
    ELSE AddNodes([storage0 EXCEPT
                      !.nodes = Append(@, Node_new(Len(storage0.nodes),
                                                   storage0.position))],
                  n - 1)

\* Storage::new(position), then add_node n times
AddNodesCall(storage_position, n) ==
    /\ lastGeo' = [op |-> "add_node", n |-> n,
                   storage |-> AddNodes([position |-> storage_position,
                                         nodes |-> <<>>], n)]
    /\ UNCHANGED <<storage, disk>>
    /\ GeoFrame

NextGeo ==
    \/ \E node_id \in NodeIds : \E np \in NodePositions : \E index \in 0..3 :
          \E build \in Builds : ChestNewCall(node_id, np, index, build)
    \/ \E id \in ChestIds : LoadByIdCall(id)
    \/ \E node_id \in 0..MaxNodeId : \E p \in StoragePositions :
          NodeNewCall(node_id, p)
    \/ \E n \in {1, MaxNodes, MaxNodeId} : \E p \in StoragePositions :
          AddNodesCall(p, n)

SpecGeo == InitGeo /\ [][NextGeo]_vars

(***************************************************************************)
(* SpecCall: the handlers of Store called one at a time on a Store loaded  *)
(* from disk: handle_player_command with every player and command, add_user *)
(* and add_pair (both pub fn) with every argument, handle_cli_message with *)
(* QueryBalances and UpdatePrice whose reply receiver is alive or dropped. *)
(***************************************************************************)
\* The commands drawn: those of the whispers, and quantities and amounts
\* that do not parse.
CallCommands ==
    ChatCommands
    \cup {<<"buy", "diamond", "x">>, <<"buy", "emerald", "-1">>,
          <<"sell", "diamond", "1.5">>, <<"sell", "emerald", "two">>,
          <<"pay", "bob", "abc">>, <<"pay", "ghost", "1,0">>,
          <<"sell", "diamond", "1">>, <<"buy", "emerald", "2">>,
          <<"balance">>}

Items == {"diamond", "emerald"}

InitialPairs == {EmptyMap, Insert(EmptyMap, "diamond", DiamondPair)}

\* A direct call of add_user or add_pair, in the shape of a message.
CallOf(kind, name, item) ==
    [kind |-> kind, player |-> name, command |-> <<>>, item |-> item]

InitCall ==
    /\ users \in {UsersOf(bal) : bal \in InitialUsers}
    /\ pairs \in InitialPairs
    /\ orders \in {<<>>, <<Order1>>}
    /\ trades \in {{}, {Trade1}}
    /\ storage = [nodes |-> <<>>]
    /\ storePc = "recv"
    /\ lastPay = NoPay /\ nPay = 0
    /\ disk = FreshDisk
    /\ store_rx = <<>> /\ bot_rx = <<>> /\ cur = NoMsg
    /\ botPc = "ended" /\ connected = FALSE
    /\ cliPc = "exited" /\ reply = NoReply /\ ack = "none"
    /\ panicAt = "" /\ lastSave = "none" /\ faults = 0
    /\ nSent = 0 /\ nRecv = 0 /\ nSaved = 0
    /\ sentBy = [bot |-> 0, cli |-> 0] /\ took = [bot |-> 0, cli |-> 0]
    /\ shutdownLog = <<>> /\ lastHandled = NoHandled
    /\ lastRepo = NoRepo
    /\ lastGeo = NoGeo

\* What a call leaves besides the collections.
CallFrame ==
    UNCHANGED <<disk, peerVars, logVars, payVars, sentBy, took, shutdownLog,
                lastRepo, lastGeo>>

\* A handle_player_command whose buy and sell branches record the order
\* before they look the pair up.
CommandCallOrdering(player, command) ==
    /\ storePc = "recv"
    /\ lastHandled.n < MaxCalls
    /\ LET h == handle_player_command(users, pairs, player, command)
       IN  /\ users' = h.users
           /\ lastHandled' = Handled(PlayerCommand(player, command), h.res,
                                     h.notice)
           /\ storePc' = IF h.res = "Panic" THEN "panicked" ELSE "recv"
           /\ orders' = IF h.notice.text \in {"not available", "created order"}
                         THEN Append(orders,
                                     [order_type |-> "Buy", item |-> command[2],
                                      amount |-> ParseU32(command[3]).v,
                                      user_uuid |-> get_uuid(player).v])
                         ELSE orders
    /\ UNCHANGED <<pairs, trades, storage>>
    /\ CallFrame

\* handle_player_command(player_name, command): it assigns to self.users
\* only (through add_user and pay).
CommandCall(player, command) ==
    /\ storePc = "recv"
    /\ lastHandled.n < MaxCalls
    /\ LET h == handle_player_command(users, pairs, player, command)
       IN  /\ users' = h.users
           /\ lastHandled' = Handled(PlayerCommand(player, command), h.res,
                                     h.notice)
           /\ storePc' = IF h.res = "Panic" THEN "panicked" ELSE "recv"
    /\ UNCHANGED memVars
    /\ CallFrame

\* add_user(username)
AddUserCall(username) ==
    /\ storePc = "recv"
    /\ lastHandled.n < MaxCalls
    /\ IF add_user_panics(username)
       THEN /\ users' = users
            /\ storePc' = "panicked"
            /\ lastHandled' = Handled(CallOf("add_user", username, ""),
                                      "Panic", Notice(""))
       ELSE /\ users' = add_user(users, username)
            /\ storePc' = "recv"
            /\ lastHandled' = Handled(CallOf("add_user", username, ""),
                                      "Ok", Notice(""))
    /\ UNCHANGED memVars
    /\ CallFrame

\* add_pair(item, item_stock, currency_stock)
AddPairCall(item, item_stock, currency_stock) ==
    /\ storePc = "recv"
    /\ lastHandled.n < MaxCalls
    /\ pairs' = add_pair(pairs, item, item_stock, currency_stock)
    /\ lastHandled' = Handled(CallOf("add_pair", "", item), "Ok", Notice(""))
    /\ UNCHANGED <<users, storePc, orders, trades, storage>>
    /\ CallFrame

\* respond_to.send(v) on a oneshot: delivered when the receiver is alive,
\* handed back (and discarded by `let _ =`) when it was dropped.
OneshotSend(kind, v, rx_alive) ==
    IF rx_alive
    THEN Replied(kind, v)
    ELSE [st |-> "dropped", kind |-> kind, val |-> Ok("")]

\* A QueryBalances handler that answers with the accounts on file instead of
\* those in memory.
QueryBalancesCallFromFiles(rx_alive) ==
    /\ storePc = "recv"
    /\ lastHandled.n < MaxCalls
    /\ reply' = OneshotSend("QueryBalances",
                            Values(User_load_all(disk.users)), rx_alive)
    /\ lastHandled' = Handled(CallOf("QueryBalances", "", ""), "Ok", Notice(""))
    /\ UNCHANGED <<users, storePc, memVars, disk, store_rx, bot_rx, cur, botPc,
                   connected, cliPc, ack, logVars, payVars, sentBy, took,
                   shutdownLog, lastRepo, lastGeo>>

\* handle_cli_message(QueryBalances {respond_to})
QueryBalancesCall(rx_alive) ==
    /\ storePc = "recv"
    /\ lastHandled.n < MaxCalls
    /\ reply' = OneshotSend("QueryBalances", Values(users), rx_alive)
    /\ lastHandled' = Handled(CallOf("QueryBalances", "", ""), "Ok", Notice(""))
    /\ UNCHANGED <<users, storePc, memVars, disk, store_rx, bot_rx, cur, botPc,
                   connected, cliPc, ack, logVars, payVars, sentBy, took,
                   shutdownLog, lastRepo, lastGeo>>

\* handle_cli_message(UpdatePrice {item_name, new_price, respond_to}); the
\* new price is logged and nothing else.
UpdatePriceCall(item_name, rx_alive) ==
    /\ storePc = "recv"
    /\ lastHandled.n < MaxCalls
    /\ reply' = OneshotSend("UpdatePrice", update_item_price(pairs, item_name),
                            rx_alive)
    /\ lastHandled' = Handled(CallOf("UpdatePrice", "", item_name), "Ok",
                              Notice(""))
    /\ UNCHANGED <<users, storePc, memVars, disk, store_rx, bot_rx, cur, botPc,
                   connected, cliPc, ack, logVars, payVars, sentBy, took,
                   shutdownLog, lastRepo, lastGeo>>

NextCall ==
    \/ \E player \in Usernames, command \in CallCommands :
          CommandCall(player, command)
    \/ \E username \in Usernames : AddUserCall(username)
    \/ \E item \in Items, item_stock \in 0..MaxAmount,
          currency_stock \in {Fin(0), Fin(MaxAmount)} :
          AddPairCall(item, item_stock, currency_stock)
    \/ \E rx_alive \in BOOLEAN : QueryBalancesCall(rx_alive)
    \/ \E item_name \in Items, rx_alive \in BOOLEAN :
          UpdatePriceCall(item_name, rx_alive)

SpecCall == InitCall /\ [][NextCall]_vars

(***************************************************************************)
(* Claims about Store::pay, checked under SpecPay.                         *)
(***************************************************************************)
RECURSIVE SumOver(_, _)
SumOver(u, ids) ==
    IF ids = {} THEN Fin(0)
    ELSE LET id == CHOOSE x \in ids : TRUE
         IN  FAdd(u[id].balance, SumOver(u, ids \ {id}))

\* The sum of all user balances, as an f64.
SumOfBalances(u) == SumOver(u, DOMAIN u)

\* The balance a player is seen to have: 0 without an account.
BalanceOf(u, id) == IF id \in DOMAIN u THEN u[id].balance ELSE Fin(0)

\* C1: every pay that returns Ok leaves the sum of all user balances equal
\* to the sum before that call (payer and payee may be the same user).
C1_PayConservesSum ==
    (lastPay.called /\ lastPay.res = "Ok")
        => SumOfBalances(users) = SumOfBalances(lastPay.before)

\* One of the three causes of failure holds of call p: a username does not
\* resolve, or the payer's account lacks the amount, or the amount is not
\* positive.
PayMustFail(p) ==
    \/ ~get_uuid(p.payer).ok
    \/ ~get_uuid(p.payee).ok
    \/ /\ get_uuid(p.payer).v \in DOMAIN p.before
       /\ \/ FLe(p.amount, Fin(0))
          \/ FLt(p.before[get_uuid(p.payer).v].balance, p.amount)

\* C2: a pay that fails because amount <= 0, because the payer's balance is
\* less than amount, or because a username does not resolve, returns an
\* error and leaves the balance of every user unchanged.
C2_FailedPayKeepsBalances ==
    (lastPay.called /\ PayMustFail(lastPay))
        => /\ lastPay.res = "Err"
           /\ \A id \in Uuids :
                 BalanceOf(users, id) = BalanceOf(lastPay.before, id)

\* Whenever pay does return an error, the balance of every user is what it
\* was before the call.
PayErrKeepsBalances ==
    (lastPay.called /\ lastPay.res = "Err")
        => \A id \in Uuids :
              BalanceOf(users, id) = BalanceOf(lastPay.before, id)

\* Some check of pay does not pass on the arguments of call p.
PayCheckFails(p) ==
    \/ ~get_uuid(p.payer).ok
    \/ ~get_uuid(p.payee).ok
    \/ get_uuid(p.payer).v \notin DOMAIN p.before
    \/ FLe(p.amount, Fin(0))
    \/ FLt(p.before[get_uuid(p.payer).v].balance, p.amount)

\* C3: every check of pay is made before any mutation: a pay on which a
\* check fails is a failing pay, it returns its error, and the users
\* collection after it is identical to the one before the call.
C3_FailingPayLeavesUsers ==
    (lastPay.called /\ PayCheckFails(lastPay))
        => (lastPay.res = "Err" /\ users = lastPay.before)

\* The payer has an account with balance >= amount > 0 and the payee's name
\* resolves but has no account yet.
PayeeAbsent(p) ==
    /\ get_uuid(p.payer).ok
    /\ get_uuid(p.payee).ok
    /\ get_uuid(p.payer).v \in DOMAIN p.before
    /\ get_uuid(p.payee).v \notin DOMAIN p.before
    /\ FLt(Fin(0), p.amount)
    /\ FLe(p.amount, p.before[get_uuid(p.payer).v].balance)

\* C4: such a pay succeeds, the payee account is created under the payee's
\* stable id and ends with balance = amount, the payer with its previous
\* balance minus amount.
C4_PayCreatesPayee ==
    (lastPay.called /\ PayeeAbsent(lastPay))
        => LET payer_uuid == get_uuid(lastPay.payer).v
               payee_uuid == get_uuid(lastPay.payee).v
           IN  /\ lastPay.res = "Ok"
               /\ payee_uuid \in DOMAIN users
               /\ users[payee_uuid].balance = lastPay.amount
               /\ users[payer_uuid].balance =
                      FSub(lastPay.before[payer_uuid].balance, lastPay.amount)

(***************************************************************************)
(* Claims about the Store task, checked under Spec.                        *)
(***************************************************************************)
\* C5: balances that are non-negative when the Store starts are non-negative
\* after any sequence of Store messages.
C5_BalancesStayNonNegative ==
    \A id \in DOMAIN users : FLe(Fin(0), users[id].balance)

\* C6: a message is dequeued only after the handler of the previous one has
\* returned and the save that follows it has completed: at most one message
\* is in processing, and none while the Store awaits the next one.
C6_OneMessageAtATime ==
    /\ nRecv - nSaved \in {0, 1}
    /\ storePc = "recv" => nRecv = nSaved
    /\ storePc \in {"handle", "await_ack"} => nRecv = nSaved + 1

\* The second message is in its handler, the first one's save having
\* completed (with an error) while the second was already queued.
C6_Witness ==
    /\ storePc = "handle"
    /\ nRecv = 2 /\ nSaved = 1
    /\ lastSave = "Err"
    /\ store_rx # <<>>

\* What a successful save leaves of each collection: the files load back as
\* the collection in memory, and no other file is left in its directory.
DiskMirrorsMemory ==
    /\ Pair_load_all(disk.pairs) = pairs
    /\ DOMAIN disk.pairs.files = DOMAIN PairFiles(pairs)
    /\ User_load_all(disk.users) = users
    /\ DOMAIN disk.users.files = DOMAIN UserFiles(users)
    /\ Order_load_all(disk.orders) = orders
    /\ Trade_load_all(disk.trades) = trades
    /\ DOMAIN disk.trades.files = DOMAIN TradeFiles(trades)
    /\ Storage_load(disk.storage) = storage

\* C7: the save after a message is a full save of pairs, users, orders,
\* trades and storage chests: once it succeeded, the disk equals the memory.
C7_SaveWritesEveryCollection ==
    (lastSave = "Ok" /\ storePc = "recv") => DiskMirrorsMemory

\* C8: when the save made for a message fails for any collection (pairs,
\* users, orders, storage chests), the failure is logged and the Store goes
\* on to the next message.
C8_FailedSaveKeepsStoreRunning ==
    (nRecv > nSaved /\ faults > 0 /\ lastSave # "Ok")
        => panicAt # "Storage::save"

\* C9: no PlayerCommand aborts the Store loop.
C9_PlayerCommandNeverAborts ==
    panicAt \notin {"add_user", "User::new"}

\* C10: the Store loop stops only when its inbound channel is closed (every
\* sender dropped, the queue drained).
C10_StopsOnlyWhenInboundClosed ==
    ~StoreAlive => (InboundClosed /\ store_rx = <<>>)

\* The place of event e in the log of the Shutdown in progress, 0 if it did
\* not happen.
PlaceOf(e) ==
    IF \E i \in 1..Len(shutdownLog) : shutdownLog[i] = e
    THEN CHOOSE i \in 1..Len(shutdownLog) :
             /\ shutdownLog[i] = e
             /\ \A j \in 1..(i - 1) : shutdownLog[j] # e
    ELSE 0

Happened(e) == PlaceOf(e) > 0

HappenedBefore(a, b) == Happened(a) /\ Happened(b) /\ PlaceOf(a) < PlaceOf(b)

\* C11 as stated: on Shutdown the reply to the requester is never sent before
\* the Shutdown instruction was sent to the adapter, the adapter acknowledged
\* it, and the save was attempted, in that order.
C11_ReplyAfterAckAndSave ==
    Happened("reply") =>
        /\ HappenedBefore("sent", "acked")
        /\ HappenedBefore("acked", "save")
        /\ HappenedBefore("save", "reply")

\* The adapter's answer the Store waited for: its acknowledgment, or the
\* loss of the adapter (the instruction could not be sent, or the adapter
\* ended with the instruction unanswered).
AdapterAnswers == {"acked", "dropped", "send failed"}

\* C11, amended: on Shutdown the reply to the requester is never sent before
\* the save attempt, and the save is never attempted before the adapter
\* acknowledged the instruction or was found to be gone; an acknowledgment
\* is an answer to an instruction that was sent.
C11_ReplyAfterAdapterAnswerAndSave ==
    /\ Happened("reply") =>
          /\ \E e \in AdapterAnswers : HappenedBefore(e, "save")
          /\ HappenedBefore("save", "reply")
    /\ Happened("save") => \E e \in AdapterAnswers : HappenedBefore(e, "save")
    /\ Happened("acked") => HappenedBefore("sent", "acked")

\* The console got its reply to a Shutdown the adapter acknowledged.
C11_Witness ==
    /\ reply.kind = "Shutdown"
    /\ reply.st = "sent"
    /\ shutdownLog = <<"sent", "acked", "save", "reply">>

\* C12: once the Store has replied to a Shutdown request and is back in its
\* loop, it holds no sender of the outbound instruction channel any more (it
\* closed its side of the channel to the adapter).
C12_ShutdownClosesOutbound ==
    (Happened("reply") /\ reply.kind = "Shutdown" /\ storePc = "recv")
        => "store" \notin OutboundSenders

\* The console's latest request was dequeued by the Store.
RequestDequeued == sentBy.cli > 0 /\ took.cli = sentBy.cli

\* The Store is in the handler of a console request.
HandlingRequest == cur.kind \in {r.kind : r \in CliRequests}

\* C13: a console request the Store dequeued has its one reply once its
\* handler is over, on every path; a request the Store never dequeued before
\* it stopped has no reply, and its requester sees the reply channel closed.
C13_DequeuedRequestGetsItsReply ==
    /\ (cliPc = "waiting" /\ RequestDequeued /\ ~HandlingRequest)
           => reply.st = "sent"
    /\ (cliPc = "waiting" /\ ~RequestDequeued /\ ~StoreAlive)
           => reply.st = "closed"

\* The senders of the inbox.
Senders == {"bot", "cli"}

\* The messages of sender s still on the inbox, oldest first.
QueuedFrom(s) == SelectSeq(store_rx, LAMBDA e : e.from = s)

\* C14: the Store takes the messages of one sender in the order that sender
\* sent them, whatever the interleaving with the other sender: the messages
\* of a sender still queued are the ones that follow the latest one taken
\* from that sender, in sending order.
C14_PerSenderOrder ==
    \A s \in Senders :
        \A i \in 1..Len(QueuedFrom(s)) : QueuedFrom(s)[i].n = took[s] + i

\* The Store took the bot's first whisper; the console's request and, behind
\* it, the bot's second whisper are queued.
C14_Witness ==
    /\ took = [bot |-> 1, cli |-> 0]
    /\ Len(store_rx) = 2
    /\ store_rx[1].from = "cli"
    /\ store_rx[2].from = "bot"

\* C15: once every inbound sender is dropped, the Store stops in one way
\* only: with the queue drained, from recv, through the final save and the
\* drop of its outbound sender (run returns).
C15_ClosureDrainsThenStops ==
    [][(InboundClosed /\ StoreAlive /\ ~StoreAlive')
          => (store_rx = <<>> /\ storePc = "recv" /\ storePc' = "done")]_vars

\* C16: the RestartBot handler leaves the session as it is and changes
\* neither users, pairs, orders, trades nor storage; with the outbound
\* channel open it enqueues one Restart instruction and replies Ok, with the
\* channel closed it enqueues nothing and replies with an error.
C16_RestartBotForwards ==
    [][(storePc = "handle" /\ cur.kind = "RestartBot" /\ storePc' # "handle")
          => /\ <<users, pairs, orders, trades, storage>>'
                   = <<users, pairs, orders, trades, storage>>
             /\ <<botPc, connected>>' = <<botPc, connected>>
             /\ reply'.st = "sent"
             /\ IF botPc = "ended"
                THEN /\ bot_rx' = bot_rx
                     /\ ~reply'.val.ok
                ELSE /\ bot_rx' = Append(bot_rx, "Restart")
                     /\ reply'.val = Ok("")]_vars

\* The Store answered Ok to a RestartBot request and the Restart instruction
\* waits on the outbound channel.
C16_Witness ==
    /\ reply.kind = "RestartBot"
    /\ reply.st = "sent"
    /\ reply.val = Ok("")
    /\ bot_rx = <<"Restart">>
    /\ cur = NoMsg

\* m is the map b with at most the key k added, every record of b as it was.
KeepsRecords(b, m, k) ==
    /\ DOMAIN m = DOMAIN b \cup {k}
    /\ \A x \in DOMAIN b : m[x] = b[x]

\* C17: add_user for a username whose id has an account and add_pair for an
\* item that has a pair leave the record on file as it was (balance, display
\* name, stocks), and that record is what the caller gets; a record is made
\* only for an absent key; a second call with the same key changes nothing.
C17_UpsertKeepsExisting ==
    /\ (lastHandled.msg.kind = "add_user" /\ lastHandled.res = "Ok") =>
          LET name == lastHandled.msg.player
              id   == get_uuid(name).v
              b    == lastHandled.before.users
          IN  /\ KeepsRecords(b, users, id)
              /\ id \in DOMAIN b => users = b
              /\ add_user(users, name) = users
              /\ \A other \in Usernames :
                    (get_uuid(other).ok /\ get_uuid(other).v = id)
                        => add_user(users, other) = users
    /\ lastHandled.msg.kind = "add_pair" =>
          LET item == lastHandled.msg.item
              b    == lastHandled.before.pairs
          IN  /\ KeepsRecords(b, pairs, item)
              /\ item \in DOMAIN b => pairs = b
              /\ \A item_stock \in 0..MaxAmount,
                    currency_stock \in {Fin(0), Fin(MaxAmount)} :
                    add_pair(pairs, item, item_stock, currency_stock) = pairs

\* add_user("al") was called on a Store where al's id holds the account
\* "alice" with a balance of MaxAmount, after another call.
C17_Witness ==
    /\ lastHandled.msg.kind = "add_user"
    /\ lastHandled.msg.player = "al"
    /\ lastHandled.n = 2
    /\ "uuid-a" \in DOMAIN lastHandled.before.users
    /\ users["uuid-a"].username = "alice"
    /\ users["uuid-a"].balance = Fin(MaxAmount)

\* The latest call was handle_player_command with a command of at least n
\* words whose first word is one of firsts.
CalledCommand(firsts, n) ==
    /\ lastHandled.msg.kind = "PlayerCommand"
    /\ Len(lastHandled.msg.command) >= n
    /\ lastHandled.msg.command[1] \in firsts

\* C18: a buy or sell for an item that has no Pair leaves pairs and orders
\* (and trades and storage) as they were; of the users nothing changes but
\* that the sender, if it had no account, now has one with balance 0.
C18_UnpairedItemFrame ==
    (/\ CalledCommand({"buy", "sell"}, 3)
     /\ ParseU32(lastHandled.msg.command[3]).ok
     /\ lastHandled.msg.command[2] \notin DOMAIN lastHandled.before.pairs)
    => LET b  == lastHandled.before
           id == get_uuid(lastHandled.msg.player)
       IN  /\ pairs = b.pairs
           /\ orders = b.orders
           /\ trades = b.trades
           /\ storage = b.storage
           /\ IF id.ok
              THEN /\ KeepsRecords(b.users, users, id.v)
                   /\ id.v \notin DOMAIN b.users => users[id.v].balance = Fin(0)
              ELSE users = b.users

\* bob, who had no account, asked to sell an item that has no pair, on a
\* Store that holds an order: he has an account with balance 0 now.
C18_Witness ==
    /\ CalledCommand({"sell"}, 3)
    /\ lastHandled.msg.player = "bob"
    /\ lastHandled.msg.command[2] = "emerald"
    /\ lastHandled.notice.text = "not available"
    /\ "uuid-b" \notin DOMAIN lastHandled.before.users
    /\ "uuid-b" \in DOMAIN users
    /\ users["uuid-b"].balance = Fin(0)
    /\ orders = <<Order1>>

\* Tokens that are no unsigned integer, and tokens that are no number.
NotAnUnsigned == {"x", "-1", "1.5", "two"}
NotANumber == {"abc", "1,0"}

\* The latest call was a buy or sell whose quantity does not parse, or a pay
\* whose amount does not parse.
CalledUnparsable ==
    \/ /\ CalledCommand({"buy", "sell"}, 3)
       /\ lastHandled.msg.command[3] \in NotAnUnsigned
    \/ /\ CalledCommand({"pay"}, 3)
       /\ lastHandled.msg.command[3] \in NotANumber

\* C19: a buy or sell whose quantity is no unsigned integer and a pay whose
\* amount is no number return an error with users, pairs, orders, trades and
\* storage as they were: no account is created for the sender.
C19_UnparsableAborts ==
    CalledUnparsable
    => /\ Mem = lastHandled.before
       /\ lastHandled.res = "Err"
       /\ storePc = "recv"

\* bob, who has no account, asked to buy a quantity "x" of diamond, which has
\* a pair: the call returned an error and bob still has no account.
C19_Witness ==
    /\ CalledUnparsable
    /\ lastHandled.msg.player = "bob"
    /\ lastHandled.msg.command = <<"buy", "diamond", "x">>
    /\ "diamond" \in DOMAIN pairs
    /\ "uuid-b" \notin DOMAIN users
    /\ lastHandled.res = "Err"

\* The balance on the account of the player called name: what the account
\* of the player's id holds, 0 when the id has no account or the name has
\* no id.
AccountBalance(u, name) ==
    IF get_uuid(name).ok /\ get_uuid(name).v \in DOMAIN u
    THEN u[get_uuid(name).v].balance
    ELSE Fin(0)

\* C20: bal and balance make a notice that reports the balance on the
\* sender's account, and 0 for a sender without account; users, pairs,
\* orders, trades and storage are as they were, no account is created.
C20_BalanceReportsAndKeeps ==
    CalledCommand({"bal", "balance"}, 1)
    => /\ lastHandled.res = "Ok"
       /\ lastHandled.notice.text = "balance"
       /\ lastHandled.notice.message =
             lastHandled.msg.player \o "'s balance: "
             \o Display_f64(AccountBalance(users, lastHandled.msg.player))
             \o " diamonds"
       /\ Mem = lastHandled.before

\* bob, who has no account, asked for his balance on a Store that holds
\* alice's account: he was told 0 and still has no account.
C20_Witness ==
    /\ CalledCommand({"bal", "balance"}, 1)
    /\ lastHandled.msg.player = "bob"
    /\ "uuid-b" \notin DOMAIN users
    /\ "uuid-a" \in DOMAIN users
    /\ lastHandled.notice.message = "bob's balance: 0 diamonds"

\* The latest call was handle_cli_message with a request of this kind.
CalledRequest(kind) == lastHandled.msg.kind = kind

\* C21: QueryBalances answers with a copy of exactly the accounts the Store
\* holds when it handles the request, whatever was handled before; it
\* changes users, pairs, orders, trades and storage in nothing, and returns
\* Ok also when the reply receiver was dropped.
C21_QueryBalancesSnapshot ==
    CalledRequest("QueryBalances")
    => /\ lastHandled.res = "Ok"
       /\ storePc = "recv"
       /\ Mem = lastHandled.before
       /\ reply.kind = "QueryBalances"
       /\ reply.st \in {"sent", "dropped"}
       /\ reply.st = "sent" => reply.val = Values(users)

\* QueryBalances was handled after a pay that left a NaN balance on an
\* account: the answer holds two accounts, one of them with that balance.
C21_Witness ==
    /\ CalledRequest("QueryBalances")
    /\ lastHandled.n = MaxCalls
    /\ reply.st = "sent"
    /\ Cardinality(reply.val) = 2
    /\ \E u \in reply.val : u.balance = NaN

\* C22: UpdatePrice answers with an error exactly when the item has no
\* Pair and with Ok otherwise; on the error path users, pairs, orders,
\* trades and storage are as they were and the item still has no Pair.
C22_UpdatePriceFailsIffNoPair ==
    (CalledRequest("UpdatePrice") /\ reply.st = "sent")
    => /\ reply.kind = "UpdatePrice"
       /\ reply.val.ok <=> (lastHandled.msg.item \in DOMAIN lastHandled.before.pairs)
       /\ ~reply.val.ok =>
             /\ Mem = lastHandled.before
             /\ lastHandled.msg.item \notin DOMAIN pairs

\* UpdatePrice for emerald, which has no Pair, was answered with an error on
\* a Store that holds the diamond Pair.
C22_Witness ==
    /\ CalledRequest("UpdatePrice")
    /\ lastHandled.msg.item = "emerald"
    /\ reply.st = "sent"
    /\ ~reply.val.ok
    /\ DOMAIN pairs = {"diamond"}

(***************************************************************************)
(* Persistence of the collections (SpecRepo)                               *)
(***************************************************************************)
CalledRepo(op) == lastRepo.op = op /\ lastRepo.entity \in Entities

\* C23: for pairs, users and trades, the empty collection included, a
\* load_all that follows a successful save_all(X) returns a collection
\* equal to X as a set.
C23_SaveLoadRoundTrip ==
    (CalledRepo("load_all") /\ lastRepo.afterSave)
    => lastRepo.got = lastRepo.given

\* The names of the .json files save_all writes for the collection given.
NamesGiven == {FileNameOf(lastRepo.entity, x) : x \in lastRepo.given}

\* C24 as stated: after a successful save_all(X) the entries of the
\* directory are exactly the files written for X, whatever it held before.
C24_DirectoryIsExactlyWritten ==
    (CalledRepo("save_all") /\ lastRepo.ret = "Ok")
    => /\ disk[lastRepo.entity].exists
       /\ DOMAIN disk[lastRepo.entity].files = NamesGiven
       /\ disk[lastRepo.entity].others = {}

\* C24: after a successful save_all(X) the .json files of the directory are
\* exactly the files written for X, each holding its entity as serialized,
\* whatever .json files it held before; the entries that are no .json files
\* are the ones it held before.
C24_JsonFilesAreExactlyWritten ==
    (CalledRepo("save_all") /\ lastRepo.ret = "Ok")
    => /\ disk[lastRepo.entity].exists
       /\ DOMAIN disk[lastRepo.entity].files = NamesGiven
       /\ \A x \in lastRepo.given :
             LET f == disk[lastRepo.entity].files[FileNameOf(lastRepo.entity, x)]
             IN  f.ok => f.v \in lastRepo.given
       /\ disk[lastRepo.entity].others = lastRepo.before.others

\* A directory of three entity files, one undeserializable file and
\* notes.txt holds, after save_all of two of the three, the two files and
\* notes.txt.
C24_Witness ==
    /\ CalledRepo("save_all") /\ lastRepo.ret = "Ok"
    /\ lastRepo.entity = "trades"
    /\ lastRepo.given = {Trade1, Trade3}
    /\ DOMAIN lastRepo.before.files = {"t1", "t2", "t3", "broken"}
    /\ DOMAIN disk.trades.files = {"t1", "t3"}
    /\ disk.trades.others = {"notes.txt"}

\* The entities of the files of a directory that deserialize.
Parsing(dir) ==
    {dir.files[n].v : n \in {m \in DOMAIN dir.files : dir.files[m].ok}}

OrdersLoaded ==
    lastRepo.op = "load_all" /\ lastRepo.entity = "orders"

\* C25 as stated: load_all returns Ok, the empty collection for a missing
\* directory or orders file, and otherwise exactly the entities of the
\* files that deserialize.
C25_LoadsExactlyTheParsing ==
    /\ CalledRepo("load_all")
       => /\ lastRepo.ret = "Ok"
          /\ ~lastRepo.before.exists => lastRepo.got = {}
          /\ lastRepo.before.exists => lastRepo.got = Parsing(lastRepo.before)
    /\ OrdersLoaded
       => /\ lastRepo.ret = "Ok"
          /\ ~disk.orders.exists => lastRepo.got = <<>>

\* C25: load_all returns Ok, the empty collection for a missing directory
\* or orders file (and for an orders file that does not deserialize), and
\* otherwise entities of the files that deserialize: all of them for
\* trades, and for pairs and users one for every key found in such a file.
C25_LoadsTheParsingByKey ==
    /\ CalledRepo("load_all")
       => /\ lastRepo.ret = "Ok"
          /\ ~lastRepo.before.exists => lastRepo.got = {}
          /\ lastRepo.before.exists
             => /\ lastRepo.got \subseteq Parsing(lastRepo.before)
                /\ \A x \in Parsing(lastRepo.before) :
                      \E y \in lastRepo.got :
                          KeyOf(lastRepo.entity, y) = KeyOf(lastRepo.entity, x)
                /\ \A x, y \in lastRepo.got :
                      KeyOf(lastRepo.entity, x) = KeyOf(lastRepo.entity, y)
                      => x = y
    /\ OrdersLoaded
       => /\ lastRepo.ret = "Ok"
          /\ ~disk.orders.exists => lastRepo.got = <<>>
          /\ (disk.orders.exists /\ ~disk.orders.parse.ok)
             => lastRepo.got = <<>>
          /\ (disk.orders.exists /\ disk.orders.parse.ok)
             => lastRepo.got = disk.orders.parse.v

\* data/users holds the files of alice and bob and a file that does not
\* deserialize; load_all returned alice and bob.
C25_Witness ==
    /\ CalledRepo("load_all") /\ lastRepo.entity = "users"
    /\ lastRepo.before.exists
    /\ \E n \in DOMAIN lastRepo.before.files : ~lastRepo.before.files[n].ok
    /\ lastRepo.got = {Alice1, Bob0}

(***************************************************************************)
(* Chest ids and positions (SpecGeo)                                       *)
(***************************************************************************)
Built == lastGeo.op = "Chest::new" /\ lastGeo.st = "built"

\* C26 as stated: for every node_id >= 0 and index in 0..3 the id of the
\* chest built decomposes by id / 4 and id % 4 to (node_id, index), and
\* every id >= 0 is made again by its node id and index.
C26_IdRoundTripAnyNode ==
    /\ (Built /\ lastGeo.node_id >= 0)
       => lastGeo.parts = [node_id |-> lastGeo.node_id, index |-> lastGeo.index]
    /\ (lastGeo.op = "load_by_id" /\ lastGeo.id >= 0)
       => lastGeo.again = lastGeo.id

\* C26: for every node_id in 0 .. 536870911 (the node ids whose chest ids
\* are within i32) and index in 0..3 the id of the chest built is node_id *
\* 4 + index and decomposes by id / 4 and id % 4 to (node_id, index); every
\* id >= 0 decomposes to a node id >= 0 and an index in 0..3 that make the
\* id again.
C26_IdRoundTrip ==
    /\ (Built /\ lastGeo.node_id >= 0 /\ lastGeo.node_id <= I32Max \div 4)
       => /\ lastGeo.chest.id = lastGeo.node_id * 4 + lastGeo.index
          /\ lastGeo.parts =
                [node_id |-> lastGeo.node_id, index |-> lastGeo.index]
    /\ (lastGeo.op = "load_by_id" /\ lastGeo.id >= 0)
       => /\ lastGeo.again = lastGeo.id
          /\ lastGeo.parts.node_id >= 0
          /\ lastGeo.parts.index \in 0..3

\* The last chest of the highest node whose ids fit has id i32::MAX.
C26_Witness ==
    /\ Built
    /\ lastGeo.node_id = Two29 - 1 /\ lastGeo.index = 3
    /\ lastGeo.chest.id = I32Max
    /\ lastGeo.parts = [node_id |-> Two29 - 1, index |-> 3]

MadeNode == lastGeo.op = "Node::new"

Abs(n) == IF n < 0 THEN -n ELSE n

\* How many steps of 3 blocks the node is from the place of node 0, the
\* farther of x and z counting.
Rings ==
    LET dx == (lastGeo.node.position.x - lastGeo.storage_position.x) \div 3
        dz == (lastGeo.node.position.z - lastGeo.storage_position.z) \div 3
    IN  IF Abs(dx + 2) > Abs(dz) THEN Abs(dx + 2) ELSE Abs(dz)

\* C27 as stated: node 0 has the offset (-2, 0), the nodes 1 to 4 are in
\* ring 1 and the nodes 5 to 12 in ring 2.
C27_RingsOfFourAndEight ==
    MadeNode
    => /\ lastGeo.node_id = 0 => lastGeo.offset = <<-2, 0>>
       /\ lastGeo.node_id \in 1..4 => lastGeo.ring = 1
       /\ lastGeo.node_id \in 5..12 => lastGeo.ring = 2

\* C27: node 0 has the offset (-2, 0), the nodes 1 to 7 are in ring 1 and
\* the nodes 8 to 23 in ring 2; a node of ring r stands r steps of 3
\* blocks from the place of node 0.
C27_RingBoundaries ==
    MadeNode
    => /\ lastGeo.node_id = 0 => lastGeo.offset = <<-2, 0>> /\ Rings = 0
       /\ lastGeo.node_id \in 1..7 => lastGeo.ring = 1 /\ Rings = 1
       /\ lastGeo.node_id \in 8..23 => lastGeo.ring = 2 /\ Rings = 2
       /\ lastGeo.node.position.y = lastGeo.storage_position.y

\* Node 7, the last of ring 1.
C27_Witness ==
    /\ MadeNode
    /\ lastGeo.node_id = 7 /\ lastGeo.ring = 1
    /\ lastGeo.offset = <<-2, -1>>
    /\ lastGeo.storage_position = Origin
    /\ lastGeo.node.position = Pos(-6, 64, -3)

\* C28: the node position Chest::node_position computes from a chest that
\* Chest::new built is the node position the chest was built from, for
\* every node position and every index in 0..3.
C28_NodePositionInverts ==
    Built => lastGeo.back = lastGeo.node_position

\* Chest 3 of a node at (-100, 70, 250).
C28_Witness ==
    /\ Built
    /\ lastGeo.index = 3
    /\ lastGeo.node_position = Pos(-100, 70, 250)
    /\ lastGeo.chest.position = Pos(-99, 70, 249)
    /\ lastGeo.back = Pos(-100, 70, 250)

\* The positions of the chests of the node made.
ChestPlaces ==
    {lastGeo.node.chests[k].position : k \in DOMAIN lastGeo.node.chests}

\* How many chests of the node sit where at(position) holds.
HowMany(at(_)) ==
    Cardinality({k \in DOMAIN lastGeo.node.chests :
                    at(lastGeo.node.chests[k].position)})

\* C29 as stated: of the four chests of a node two are at the node's y and
\* two at y + 1, two at the node's z and two at z - 1.
C29_TwoAtZTwoBehind ==
    MadeNode
    => LET np == lastGeo.node.position
           AtY(p) == p.y = np.y
           AboveY(p) == p.y = np.y + 1
           AtZ(p) == p.z = np.z
           BehindZ(p) == p.z = np.z - 1
       IN  /\ Len(lastGeo.node.chests) = 4
           /\ Cardinality(ChestPlaces) = 4
           /\ HowMany(AtY) = 2 /\ HowMany(AboveY) = 2
           /\ HowMany(AtZ) = 2 /\ HowMany(BehindZ) = 2

\* C29: the four chests of a node sit at four fixed offsets from the node
\* position, chest 0 at (x, y+1, z-1), 1 at (x+1, y+1, z-1), 2 at
\* (x, y, z-1) and 3 at (x+1, y, z-1): two at the node's y and two at y + 1,
\* two at the node's x and two at x + 1, all four at z - 1.  (Where x + 1,
\* y + 1 or z - 1 is no i32, Chest::new panics or, without overflow checks,
\* builds the chest with the coordinate wrapped around.)
C29_FixedOffsets ==
    /\ MadeNode
       => LET np == lastGeo.node.position
              AtY(p) == p.y = np.y
              AboveY(p) == p.y = np.y + 1
              AtX(p) == p.x = np.x
              BesideX(p) == p.x = np.x + 1
              BehindZ(p) == p.z = np.z - 1
          IN  /\ Len(lastGeo.node.chests) = 4
              /\ \A k \in 1..4 : lastGeo.node.chests[k].index = k - 1
              /\ lastGeo.node.chests[1].position = Pos(np.x, np.y + 1, np.z - 1)
              /\ lastGeo.node.chests[2].position = Pos(np.x + 1, np.y + 1, np.z - 1)
              /\ lastGeo.node.chests[3].position = Pos(np.x, np.y, np.z - 1)
              /\ lastGeo.node.chests[4].position = Pos(np.x + 1, np.y, np.z - 1)
              /\ HowMany(AtY) = 2 /\ HowMany(AboveY) = 2
              /\ HowMany(AtX) = 2 /\ HowMany(BesideX) = 2
              /\ HowMany(BehindZ) = 4
    /\ lastGeo.op = "Chest::new"
       => LET np == lastGeo.node_position
              i == lastGeo.index
              fits == /\ np.x < I32Max /\ np.y < I32Max /\ np.z > I32Min
                      /\ lastGeo.node_id >= -Two29
                      /\ lastGeo.node_id <= I32Max \div 4
          IN  /\ fits
                 => /\ lastGeo.st = "built"
                    /\ lastGeo.chest.position =
                          Pos(np.x + (IF i \in {1, 3} THEN 1 ELSE 0),
                              np.y + (IF i \in {0, 1} THEN 1 ELSE 0),
                              np.z - 1)
              /\ lastGeo.st = "panic" => lastGeo.build = "debug" /\ ~fits

\* The node 8 of a storage at (0, 64, 0) stands at (0, 64, -6); its chests
\* are at z = -7, in the columns x = 0 and x = 1, at y = 64 and y = 65.
C29_Witness ==
    /\ MadeNode
    /\ lastGeo.node_id = 8
    /\ lastGeo.node.position = Pos(0, 64, -6)
    /\ ChestPlaces =
          {Pos(0, 65, -7), Pos(1, 65, -7), Pos(0, 64, -7), Pos(1, 64, -7)}

(***************************************************************************)
(* The nodes of Storage (SpecStorage)                                      *)
(***************************************************************************)
\* C30: every node of Storage owns exactly 4 chests, with the indices 0, 1,
\* 2, 3 and the ids node_id * 4 + index, after any sequence of
\* Storage::load and add_node.
C30_NodesOwnFourChests ==
    \A n \in DOMAIN storage.nodes :
        LET node == storage.nodes[n]
        IN  /\ Len(node.chests) = 4
            /\ \A k \in 1..4 :
                  /\ node.chests[k].index = k - 1
                  /\ node.chests[k].id = node.id * 4 + (k - 1)

\* C31: after Storage::load with an origin, the position of every chest
\* loaded is the one the offset table gives for its index from the position
\* of its node, which is computed from the node id and the origin.
C31_LoadedChestPositionsDerived ==
    \A n \in DOMAIN storage.nodes :
        LET node == storage.nodes[n]
        IN  /\ node.position = calc_position(node.id, storage.position)
            /\ \A k \in DOMAIN node.chests :
                  node.chests[k].index \in 0..3
                  => node.chests[k].position =
                        ChestPosition(node.position, node.chests[k].index)

\* C36: get_chest_mut(chest_id) returns nothing or the chest whose id is
\* chest_id, on every storage that Storage::load and add_node make.
C36_GetChestReturnsThatChest ==
    (lastGeo.op = "get_chest_mut" /\ lastGeo.ret.found)
    => lastGeo.ret.chest.id = lastGeo.chest_id

\* C37: the ids of the nodes of Storage are pairwise distinct after any
\* sequence of Storage::load and add_node.
C37_NodeIdsDistinct ==
    \A n, m \in DOMAIN storage.nodes :
        storage.nodes[n].id = storage.nodes[m].id => n = m

\* C34: in a storage made by Storage::new and add_node the nodes stand at
\* different positions, and any two chests that differ in node or index sit
\* at different positions.
C34_PositionsUnique ==
    lastGeo.op = "add_node"
    => LET nodes == lastGeo.storage.nodes
       IN  /\ \A a, b \in DOMAIN nodes :
                 /\ nodes[a].id = a - 1
                 /\ nodes[a].position = nodes[b].position => a = b
           /\ \A a, b \in DOMAIN nodes : \A i, j \in 1..4 :
                 nodes[a].chests[i].position = nodes[b].chests[j].position
                 => a = b /\ i = j

\* The nodes 0 to 47: the rings 1, 2 and 3, full (ring 1 but for the place
\* that the special case of node 0 leaves empty).
C34_Witness ==
    /\ lastGeo.op = "add_node"
    /\ lastGeo.n = 48
    /\ lastGeo.storage.position = Origin
    /\ lastGeo.storage.nodes[48].id = 47
    /\ Cardinality({lastGeo.storage.nodes[a].chests[i].position :
                       a \in 1..48, i \in 1..4}) = 192

(***************************************************************************)
(* The running system (Spec)                                               *)
(***************************************************************************)
\* The Store is about to handle a buy or sell of an item that has a Pair.
HandlingOrder ==
    /\ storePc = "handle"
    /\ cur.kind = "PlayerCommand"
    /\ Len(cur.command) >= 3
    /\ cur.command[1] \in {"buy", "sell"}
    /\ cur.command[2] \in DOMAIN pairs
    /\ ParseU32(cur.command[3]).ok

\* C33: handling a buy or sell command for an item whose Pair exists puts
\* an instruction for the adapter (the confirmation notice for the sender)
\* on the Store's outbound channel.
C33_ConfirmationOnOutbound ==
    [][(HandlingOrder /\ storePc' = "recv") => Len(bot_rx') > Len(bot_rx)]_vars

\* C35: every entry of the users map is kept under the uuid of its record,
\* which is the Directory id of the account's name.
C35_KeyIsUuidOfName ==
    \A k \in DOMAIN users :
        /\ users[k].uuid = k
        /\ get_uuid(users[k].username) = Ok(k)

\* A message made an account for bob, which no file holds (yet).
C35_Witness ==
    /\ nRecv >= 1
    /\ DOMAIN users = {"uuid-a", "uuid-b"}
    /\ users["uuid-b"].username = "bob"
    /\ disk.users.exists
    /\ "uuid-b" \notin DOMAIN disk.users.files

\* The chests held, by node id and index.
ChestKeys(storage0) == {<<c.node_id, c.index>> : c \in ChestsOf(storage0)}

\* The files, among those of names, that the directory holds.
FilesAmong(dir, names) == names \cap DOMAIN dir.files

\* The chest files, among those of keys, that data/storage holds.
ChestFilesAmong(sdir, keys) ==
    {k \in keys : k[1] \in DOMAIN sdir.nodes /\ k[2] \in DOMAIN sdir.nodes[k[1]]}

\* C32: no step of the Store takes a User, Pair, Order or Chest out of the
\* Store's collections, and no step deletes the file of a User, Pair or
\* Chest that the Store holds.
C32_NothingRemoved ==
    [][/\ DOMAIN users \subseteq DOMAIN users'
       /\ DOMAIN pairs \subseteq DOMAIN pairs'
       /\ Len(orders) <= Len(orders')
       /\ \A k \in 1..Len(orders) : orders'[k] = orders[k]
       /\ ChestKeys(storage) \subseteq ChestKeys(storage')
       /\ FilesAmong(disk.users, DOMAIN users')
             \subseteq FilesAmong(disk'.users, DOMAIN users')
       /\ FilesAmong(disk.pairs, DOMAIN pairs')
             \subseteq FilesAmong(disk'.pairs, DOMAIN pairs')
       /\ ChestFilesAmong(disk.storage, ChestKeys(storage'))
             \subseteq ChestFilesAmong(disk'.storage, ChestKeys(storage'))]_vars

\* Three messages were handled and saved; alice, bob, the pair and the four
\* chests of node 0 are held and have their files.
C32_Witness ==
    /\ nSaved = MaxMsgs /\ lastSave = "Ok"
    /\ DOMAIN users = {"uuid-a", "uuid-b"}
    /\ DOMAIN disk.users.files = {"uuid-a", "uuid-b"}
    /\ DOMAIN pairs = {"diamond"}
    /\ DOMAIN disk.pairs.files = {"diamond"}
    /\ Cardinality(ChestKeys(storage)) = 4
    /\ ChestFilesAmong(disk.storage, ChestKeys(storage)) = ChestKeys(storage)

\* C38: once a message has been processed and its save has succeeded, no
\* .json file that load_all skipped as unparsable at startup is left in
\* data/pairs or data/users.
C38_SkippedFilesRemoved ==
    (nSaved >= 1 /\ lastSave = "Ok")
    => /\ \A n \in DOMAIN disk.pairs.files :
             disk.pairs.files[n].ok \/ n \in DOMAIN pairs
       /\ \A n \in DOMAIN disk.users.files :
             disk.users.files[n].ok \/ n \in DOMAIN users

\* The first save has succeeded and broken.json, which data/pairs and
\* data/users held at startup, is in neither.
C38_Witness ==
    /\ nSaved = 1 /\ lastSave = "Ok" /\ nRecv = 1
    /\ disk.pairs.exists /\ disk.users.exists
    /\ "broken" \notin DOMAIN disk.pairs.files
    /\ "broken" \notin DOMAIN disk.users.files
    /\ "broken" \in DOMAIN disk.trades.files

\* C39: while the Store handles a Shutdown request and the bot task has
\* ended, the Store is not waiting for an acknowledgment that cannot come,
\* and its next step saves and replies to the requester.
C39_ShutdownWithoutBotReplies ==
    [][(storePc = "await_ack" /\ botPc = "ended")
       => /\ ack \in {"acked", "dropped"}
          /\ storePc' # storePc
             => /\ lastSave' \in {"Ok", "Err"}
                /\ reply'.st = "sent" /\ reply'.kind = "Shutdown"]_vars

\* The Store can go no further until the bot takes an instruction: the
\* outbound channel is full under its send, or it awaits the acknowledgment
\* of a Shutdown the bot still holds.
StoreWaitsForBot ==
    \/ /\ storePc = "handle"
       /\ cur.kind \in {"RestartBot", "Shutdown"}
       /\ botPc # "ended"
       /\ Len(bot_rx) >= OutboxCap
    \/ storePc = "await_ack" /\ ack = "pending"

\* While the Store waits for the bot, the bot task can take its next turn,
\* however full the inbox is.
C40_NoCircularWait == StoreWaitsForBot => ENABLED BotStep

\* While a request of the console is unanswered, the Store task or the bot
\* task can take a turn.
C40_PendingCanProgress ==
    reply.st = "pending" => ENABLED (StoreStep \/ BotStep)

\* C40: the Store, the bot's instruction loop, the chat forwarding and the
\* console never deadlock over the two bounded channels: the Store never
\* waits for the bot while the bot cannot go on, an unanswered request never
\* leaves both tasks unable to run, and no request the console enqueued is
\* left without its answer.
C40_NoDeadlockAndAnswered ==
    /\ C40_NoCircularWait
    /\ C40_PendingCanProgress
    /\ cliPc = "waiting" => reply.st \in {"pending", "sent"}

=============================================================================
